---- MODULE Spec2Model ----
(***************************************************************************)
(* Model of the multi-document versioned filesystem engine                 *)
(* (AutomergeFsMultiDoc, src/src/services/AutomergeFs.ts).                 *)
(*                                                                         *)
(* Paths are sequences of one-character strings, byte sequences are        *)
(* sequences of 0..255, strings are sequences of Unicode code points.      *)
(* A content passed to writeFile is [str |-> TRUE/FALSE, v |-> sequence].  *)
(***************************************************************************)
EXTENDS Integers, Sequences, FiniteSets, TLC

\* ------------------------------------------------------------------ bounds
\* Number of engine calls in one run.
MaxOps == 3
\* Largest value Date.now() takes (the clock starts at 0).
MaxClock == 1
\* Nested calls the runtime's stack holds before it throws RangeError.
MaxStack == 5
\* Nested cp calls followed in one run.
MaxNest == 3
\* Daemon starts on one data directory.
MaxStarts == 5
\* Data events delivered to one server connection.
MaxChunks == 2
\* Calls, data events and closes on one client connection.
MaxEvents == 4

\* --------------------------------------------------------- program constants
DirMode == 493
FileMode == 420
ReplacementChar == 65533
BomChar == 65279

\* ------------------------------------------------------------ small helpers
Last(s) == s[Len(s)]
Front(s) == SubSeq(s, 1, Len(s) - 1)

\* ------------------------------------------------------------- path helpers
\* path.replace(/\/+$/, ""): drop every trailing "/".
RECURSIVE StripTrailingSlashes(_)
StripTrailingSlashes(p) ==
    IF p # <<>> /\ Last(p) = "/" THEN StripTrailingSlashes(Front(p)) ELSE p

\* path.replace(/\/+/g, "/"): each run of "/" becomes one "/".
RECURSIVE CollapseSlashes(_)
CollapseSlashes(p) ==
    IF Len(p) < 2 THEN p
    ELSE IF p[1] = "/" /\ p[2] = "/" THEN CollapseSlashes(Tail(p))
    ELSE <<p[1]>> \o CollapseSlashes(Tail(p))

normalizePath(path) ==
    IF path = <<"/">> THEN <<"/">>
    ELSE CollapseSlashes(StripTrailingSlashes(path))

\* path.split("/").filter((p) => p): the non-empty segments, in order.
RECURSIVE SplitParts(_, _)
SplitParts(p, cur) ==
    IF p = <<>> THEN (IF cur = <<>> THEN <<>> ELSE <<cur>>)
    ELSE IF Head(p) = "/"
         THEN (IF cur = <<>> THEN <<>> ELSE <<cur>>) \o SplitParts(Tail(p), <<>>)
         ELSE SplitParts(Tail(p), Append(cur, Head(p)))

Parts(path) == SplitParts(path, <<>>)

\* "/" + parts.join("/")
RECURSIVE JoinParts(_)
JoinParts(parts) ==
    IF parts = <<>> THEN <<>>
    ELSE IF Len(parts) = 1 THEN Head(parts)
    ELSE Head(parts) \o <<"/">> \o JoinParts(Tail(parts))

getParentPath(path) ==
    IF path = <<"/">> THEN <<"/">>
    ELSE IF Len(Parts(path)) = 1 THEN <<"/">>
    ELSE <<"/">> \o JoinParts(Front(Parts(path)))

getBasename(path) ==
    IF path = <<"/">> THEN <<"/">>
    ELSE IF Parts(path) = <<>> THEN <<>>
    ELSE Last(Parts(path))

\* normalized === "/" ? `/${name}` : `${normalized}/${name}`
ChildPath(normalized, name) ==
    IF normalized = <<"/">> THEN <<"/">> \o name
    ELSE normalized \o <<"/">> \o name

\* -------------------------------------------------------------- UTF-8 codec
IsCont(b) == b >= 128 /\ b <= 191

\* Number of bytes of the sequence a lead byte starts; 0 for a byte that
\* cannot start one (a continuation byte, 0xC0, 0xC1, 0xF5..0xFF).
SeqLen(b) ==
    IF b < 128 THEN 1
    ELSE IF b >= 194 /\ b <= 223 THEN 2
    ELSE IF b >= 224 /\ b <= 239 THEN 3
    ELSE IF b >= 240 /\ b <= 244 THEN 4
    ELSE 0

\* The range of the second byte, which depends on the lead byte.
SecondOk(b0, b1) ==
    CASE b0 = 224 -> b1 >= 160 /\ b1 <= 191
      [] b0 = 237 -> b1 >= 128 /\ b1 <= 159
      [] b0 = 240 -> b1 >= 144 /\ b1 <= 191
      [] b0 = 244 -> b1 >= 128 /\ b1 <= 143
      [] OTHER -> IsCont(b1)

\* How many bytes at the head of bs form a (prefix of a) well-formed sequence.
GoodPrefix(bs) ==
    LET n == SeqLen(bs[1])
    IN  IF n = 0 THEN 0
        ELSE IF n = 1 \/ Len(bs) < 2 \/ ~SecondOk(bs[1], bs[2]) THEN 1
        ELSE IF n = 2 \/ Len(bs) < 3 \/ ~IsCont(bs[3]) THEN 2
        ELSE IF n = 3 \/ Len(bs) < 4 \/ ~IsCont(bs[4]) THEN 3
        ELSE 4

WellFormedAtHead(bs) == SeqLen(bs[1]) # 0 /\ GoodPrefix(bs) = SeqLen(bs[1])

CodePointAtHead(bs) ==
    CASE SeqLen(bs[1]) = 1 -> bs[1]
      [] SeqLen(bs[1]) = 2 -> (bs[1] - 192) * 64 + (bs[2] - 128)
      [] SeqLen(bs[1]) = 3 ->
            (bs[1] - 224) * 4096 + (bs[2] - 128) * 64 + (bs[3] - 128)
      [] OTHER ->
            (bs[1] - 240) * 262144 + (bs[2] - 128) * 4096
              + (bs[3] - 128) * 64 + (bs[4] - 128)

\* TextDecoder with fatal: true accepts exactly the well-formed sequences.
RECURSIVE Utf8Valid(_)
Utf8Valid(bs) ==
    IF bs = <<>> THEN TRUE
    ELSE WellFormedAtHead(bs)
         /\ Utf8Valid(SubSeq(bs, SeqLen(bs[1]) + 1, Len(bs)))

\* The decoder's loop: an ill-formed part yields U+FFFD and is skipped.
RECURSIVE DecodeLoop(_)
DecodeLoop(bs) ==
    IF bs = <<>> THEN <<>>
    ELSE IF WellFormedAtHead(bs)
         THEN <<CodePointAtHead(bs)>>
                \o DecodeLoop(SubSeq(bs, SeqLen(bs[1]) + 1, Len(bs)))
    ELSE LET k == IF GoodPrefix(bs) = 0 THEN 1 ELSE GoodPrefix(bs)
         IN  <<ReplacementChar>> \o DecodeLoop(SubSeq(bs, k + 1, Len(bs)))

\* new TextDecoder().decode(bytes): ignoreBOM is false, so a leading
\* byte order mark is consumed and does not appear in the result.
TextDecode(bs) ==
    LET s == DecodeLoop(bs)
    IN  IF s # <<>> /\ Head(s) = BomChar THEN Tail(s) ELSE s

EncodeCodePoint(c) ==
    IF c < 128 THEN <<c>>
    ELSE IF c < 2048 THEN <<192 + (c \div 64), 128 + (c % 64)>>
    ELSE IF c < 65536
         THEN <<224 + (c \div 4096), 128 + ((c \div 64) % 64), 128 + (c % 64)>>
    ELSE <<240 + (c \div 262144), 128 + ((c \div 4096) % 64),
           128 + ((c \div 64) % 64), 128 + (c % 64)>>

\* new TextEncoder().encode(text)
RECURSIVE TextEncode(_)
TextEncode(s) ==
    IF s = <<>> THEN <<>> ELSE EncodeCodePoint(Head(s)) \o TextEncode(Tail(s))

\* A test that takes every byte above 0x7F for binary.
isBinary_HighBit(bytes) == \E i \in 1..Len(bytes) : bytes[i] >= 128

\* isBinary(bytes): the fatal decode throws.
isBinary(bytes) == ~Utf8Valid(bytes)

\* ------------------------------------------------------------ document schema
\* An absent fileDocId / blobHash / parent (undefined or null in the code).
NoDoc == 0
NoHash == <<>>
NoParent == <<>>

\* getEntry's null.
NullEntry ==
    [type |-> "none", parent |-> NoParent, name |-> <<>>, size |-> 0, mode |-> 0,
     mtime |-> 0, ctime |-> 0, fileDocId |-> NoDoc, blobHash |-> NoHash]

\* The root entry written by create().
RootEntry(t) ==
    [type |-> "directory", parent |-> NoParent, name |-> <<"/">>, size |-> 0,
     mode |-> DirMode, mtime |-> t, ctime |-> t,
     fileDocId |-> NoDoc, blobHash |-> NoHash]

\* The engine's state: the root document's tree, the repo's file documents
\* (document id n is the n-th document created; a document is the sequence
\* of the texts its changes produced), the blob store and the handle cache.
NewEngine(t) ==
    [tree |-> (<<"/">> :> RootEntry(t)), docs |-> <<>>, blobs |-> <<>>,
     fileHandles |-> {}]

Ok(st) == [st |-> st, err |-> ""]
\* A throw that leaves an empty blob behind in the store.
Fail_LeavesBlob(st, e) ==
    [st |-> [st EXCEPT !.blobs = (<<"sha256">> :> <<>>) @@ @], err |-> e]
Fail(st, e) == [st |-> st, err |-> e]

\* ---------------------------------------------------------- entry management
getEntry(tr, path) ==
    IF normalizePath(path) \in DOMAIN tr THEN tr[normalizePath(path)]
    ELSE NullEntry

setEntry(tr, path, entry) ==
    [k \in DOMAIN tr \cup {normalizePath(path)} |->
        IF k = normalizePath(path) THEN entry ELSE tr[k]]

deleteEntry(tr, path) ==
    [k \in DOMAIN tr \ {normalizePath(path)} |-> tr[k]]

\* --------------------------------------------------------------- blob store
\* SHA-256 as an injective function of the bytes.
createBlobHash(data) == <<"sha256">> \o data

BlobSet(blobs, hash, data) ==
    [h \in DOMAIN blobs \cup {hash} |-> IF h = hash THEN data ELSE blobs[h]]

BlobDelete(blobs, hash) == [h \in DOMAIN blobs \ {hash} |-> blobs[h]]

BlobHas(blobs, hash) == hash \in DOMAIN blobs

\* ------------------------------------------------- FileSystemBlobStore
\* The base directory: its subdirectories by name, and the regular files in
\* them by [dir, file].
EmptyDisk == [dirs |-> {}, files |-> [f \in {} |-> <<>>]]

\* The directory "00" that takes hashes shorter than two characters.
ShortDir == <<"0", "0">>

\* getPath: join(basePath, dir, filename).  A hash of exactly two characters
\* has the empty filename, and the joined path is the directory itself.
FsBlobGetPath(hash) ==
    IF Len(hash) < 2 THEN [dir |-> ShortDir, file |-> hash]
    ELSE [dir |-> SubSeq(hash, 1, 2), file |-> SubSeq(hash, 3, Len(hash))]

\* Bun.file(path).exists().  dirExists is the runtime's answer when the path
\* names a directory, which the source leaves to the runtime.
FsFileExists(d, path, dirExists) ==
    IF path.file = <<>> THEN path.dir \in d.dirs /\ dirExists
    ELSE path \in DOMAIN d.files

\* get: null when the file does not exist, else its bytes; reading a
\* directory throws.
FsBlobGet(d, hash, dirExists) ==
    LET path == FsBlobGetPath(hash)
    IN  IF ~FsFileExists(d, path, dirExists)
        THEN [err |-> "", found |-> FALSE, bytes |-> <<>>]
        ELSE IF path.file = <<>>
             THEN [err |-> "EISDIR", found |-> FALSE, bytes |-> <<>>]
        ELSE [err |-> "", found |-> TRUE, bytes |-> d.files[path]]

\* set: mkdir(dir, recursive) and then Bun.write(path, data), which throws
\* when the path is the directory just made.
FsBlobSet(d, hash, data) ==
    LET path == FsBlobGetPath(hash)
        dir == IF Len(hash) < 2 THEN ShortDir ELSE SubSeq(hash, 1, 2)
        made == [d EXCEPT !.dirs = @ \cup {dir}]
    IN  IF path.file = <<>> THEN [disk |-> made, err |-> "EISDIR"]
        ELSE [disk |-> [made EXCEPT !.files =
                           [f \in DOMAIN @ \cup {path} |->
                               IF f = path THEN data ELSE @[f]]],
              err |-> ""]

FsBlobHas(d, hash, dirExists) ==
    FsFileExists(d, FsBlobGetPath(hash), dirExists)

\* delete: unlink(path) when the file exists; unlink of a directory throws.
FsBlobDelete(d, hash, dirExists) ==
    LET path == FsBlobGetPath(hash)
    IN  IF ~FsFileExists(d, path, dirExists) THEN [disk |-> d, err |-> ""]
        ELSE IF path.file = <<>> THEN [disk |-> d, err |-> "EPERM"]
        ELSE [disk |-> [d EXCEPT !.files =
                           [f \in DOMAIN @ \ {path} |-> @[f]]],
              err |-> ""]

\* list: entry.name + file for every file of every subdirectory.
FsBlobList(d) == {f.dir \o f.file : f \in DOMAIN d.files}

\* ------------------------------------------------------- file documents
\* A lookup that consults the cache only and never asks the repo.
getOrLoadFileHandle_CacheOnly(st, docId) == st

\* getOrLoadFileHandle: a handle found in the repo is put in the cache.
getOrLoadFileHandle(st, docId) ==
    [st EXCEPT !.fileHandles = @ \cup {docId}]

\* handle.doc() of the handle getOrLoadFileHandle returned: the document of
\* the repo; no document when no handle is held.
HandleDoc(st, docId) ==
    IF docId \in st.fileHandles THEN st.docs[docId] ELSE <<>>

\* createFileDoc: a new document whose first change sets the content.
createFileDoc(st, text) ==
    [st EXCEPT !.docs = Append(@, <<text>>),
               !.fileHandles = @ \cup {Len(st.docs) + 1}]

\* doc?.content ?? ""
DocContent(doc) == IF doc = <<>> THEN <<>> ELSE Last(doc)

\* An update that puts the text in a document of its own.
updateText_NewDoc(st, docId, text) == createFileDoc(st, text)

\* handle.change(updateText): a change is recorded only if the text differs.
updateText(st, docId, text) ==
    IF DocContent(st.docs[docId]) = text THEN st
    ELSE [st EXCEPT !.docs[docId] = Append(@, text)]

\* Automerge.getHeads: the hash of the latest change, unique to the document
\* and the change.
getHeads(docId, doc) == <<<<docId, Len(doc)>>>>

\* Automerge.view(doc, heads).content ?? "", "" when view throws.
viewContent(docId, doc, heads) ==
    IF Len(heads) = 1 /\ heads[1][1] = docId
          /\ heads[1][2] >= 1 /\ heads[1][2] <= Len(doc)
    THEN doc[heads[1][2]]
    ELSE <<>>

\* ------------------------------------------------------ filesystem operations
\* A read's result: the bytes, or the error thrown; st is the state after the
\* call (a text read may load the file's handle into the cache).
ReadOk(st, bytes) == [st |-> st, err |-> "", bytes |-> bytes]
ReadFail(st, e) == [st |-> st, err |-> e, bytes |-> <<>>]

readFile(st, path) ==
    LET entry == getEntry(st.tree, path)
    IN  IF entry.type = "none" THEN ReadFail(st, "ENOENT")
        ELSE IF entry.type # "file" THEN ReadFail(st, "EISDIR")
        ELSE IF entry.blobHash # NoHash
             THEN IF BlobHas(st.blobs, entry.blobHash)
                  THEN ReadOk(st, st.blobs[entry.blobHash])
                  ELSE ReadFail(st, "BlobNotFound")
        ELSE IF entry.fileDocId # NoDoc
             THEN LET st1 == getOrLoadFileHandle(st, entry.fileDocId)
                  IN  ReadOk(st1, TextEncode(DocContent(
                                     HandleDoc(st1, entry.fileDocId))))
        ELSE ReadOk(st, <<>>)

\* A binary branch that carries the old entry's document pointer over.
BlobFileEntry_KeepsDoc(parentPath, normalized, size, existing, t, blobHash) ==
    [type |-> "file", parent |-> parentPath, name |-> getBasename(normalized),
     size |-> size,
     mode |-> IF existing.type = "none" THEN FileMode ELSE existing.mode,
     mtime |-> t,
     ctime |-> IF existing.type = "none" THEN t ELSE existing.ctime,
     fileDocId |-> existing.fileDocId, blobHash |-> blobHash]

\* The entry writeFile's binary branch stores.
BlobFileEntry(parentPath, normalized, size, existing, t, blobHash) ==
    [type |-> "file", parent |-> parentPath, name |-> getBasename(normalized),
     size |-> size,
     mode |-> IF existing.type = "none" THEN FileMode ELSE existing.mode,
     mtime |-> t,
     ctime |-> IF existing.type = "none" THEN t ELSE existing.ctime,
     fileDocId |-> NoDoc, blobHash |-> blobHash]

\* A text entry that starts every write from the default mode.
TextFileEntry_ResetsMode(parentPath, normalized, size, existing, t, docId) ==
    [type |-> "file", parent |-> parentPath, name |-> getBasename(normalized),
     size |-> size, mode |-> FileMode, mtime |-> t,
     ctime |-> IF existing.type = "none" THEN t ELSE existing.ctime,
     fileDocId |-> docId, blobHash |-> NoHash]

\* The entry writeFile's text branch stores.
TextFileEntry(parentPath, normalized, size, existing, t, fileDocId) ==
    [type |-> "file", parent |-> parentPath, name |-> getBasename(normalized),
     size |-> size,
     mode |-> IF existing.type = "none" THEN FileMode ELSE existing.mode,
     mtime |-> t,
     ctime |-> IF existing.type = "none" THEN t ELSE existing.ctime,
     fileDocId |-> fileDocId, blobHash |-> NoHash]

\* typeof content === "string" ? new TextEncoder().encode(content) : content
ContentBytes(content) ==
    IF content.str THEN TextEncode(content.v) ELSE content.v

\* typeof content === "string" ? content : new TextDecoder().decode(bytes)
ContentText(content) ==
    IF content.str THEN content.v ELSE TextDecode(content.v)

ContentIsBinary(content) == ~content.str /\ isBinary(content.v)

\* A binary branch that leaves the replaced text document's handle cached.
WriteBinary_KeepsHandle(st, normalized, parentPath, bytes, existing, t) ==
    LET blobHash == createBlobHash(bytes)
        st1 == [st EXCEPT !.blobs = BlobSet(@, blobHash, bytes)]
    IN  [st1 EXCEPT !.tree = setEntry(@, normalized,
            BlobFileEntry(parentPath, normalized, Len(bytes), existing, t,
                          blobHash))]

\* The binary branch of writeFile.
WriteBinary(st, normalized, parentPath, bytes, existing, t) ==
    LET blobHash == createBlobHash(bytes)
        st1 == [st EXCEPT !.blobs = BlobSet(@, blobHash, bytes)]
        st2 == IF existing.fileDocId # NoDoc
               THEN [st1 EXCEPT !.fileHandles = @ \ {existing.fileDocId}]
               ELSE st1
    IN  [st2 EXCEPT !.tree = setEntry(@, normalized,
            BlobFileEntry(parentPath, normalized, Len(bytes), existing, t,
                          blobHash))]

\* The text branch of writeFile.
WriteText(st, normalized, parentPath, text, size, existing, t) ==
    LET st1 == IF existing.fileDocId # NoDoc
               THEN updateText(getOrLoadFileHandle(st, existing.fileDocId),
                               existing.fileDocId, text)
               ELSE createFileDoc(st, text)
        fileDocId == IF existing.fileDocId # NoDoc THEN existing.fileDocId
                     ELSE Len(st.docs) + 1
        st2 == IF existing.blobHash # NoHash
               THEN [st1 EXCEPT !.blobs = BlobDelete(@, existing.blobHash)]
               ELSE st1
    IN  [st2 EXCEPT !.tree = setEntry(@, normalized,
            TextFileEntry(parentPath, normalized, size, existing, t,
                          fileDocId))]

writeFile(st, path, content, t) ==
    LET normalized == normalizePath(path)
        parentPath == getParentPath(normalized)
        parent == getEntry(st.tree, parentPath)
        existing == getEntry(st.tree, normalized)
    IN  IF parent.type # "directory" THEN Fail(st, "ENOENT")
        ELSE IF ContentIsBinary(content)
             THEN Ok(WriteBinary(st, normalized, parentPath,
                                 ContentBytes(content), existing, t))
        ELSE Ok(WriteText(st, normalized, parentPath, ContentText(content),
                          Len(ContentBytes(content)), existing, t))

\* content is a string (a sequence of code points).
appendFile(st, path, content, t) ==
    LET normalized == normalizePath(path)
        r == readFile(st, normalized)
    IN  IF r.err # ""
        THEN writeFile(st, normalized, [str |-> TRUE, v |-> content], t)
        ELSE writeFile(r.st, normalized,
                       [str |-> TRUE, v |-> TextDecode(r.bytes) \o content], t)

DirEntryOf(parentPath, normalized, t) ==
    [type |-> "directory", parent |-> parentPath,
     name |-> getBasename(normalized), size |-> 0, mode |-> DirMode,
     mtime |-> t, ctime |-> t, fileDocId |-> NoDoc, blobHash |-> NoHash]

\* A return that refreshes the modification time of the directory found.
mkdirExisting_Touch(st, normalized, t) ==
    Ok([st EXCEPT !.tree[normalized].mtime = t + 1])

\* mkdir on a path that holds a directory: "Already exists, no-op".
mkdirExisting(st, normalized, t) == Ok(st)

\* mkdir calls itself on the parent when the parent is missing. For a path
\* that is its own parent the call repeats with the same argument and never
\* reaches a base case: the call stack overflows and the call is rejected.
RECURSIVE mkdir(_, _, _, _)
mkdir(st, path, recursive, t) ==
    LET normalized == normalizePath(path)
        existing == getEntry(st.tree, normalized)
        parentPath == getParentPath(normalized)
        parent == getEntry(st.tree, parentPath)
        made(s) == [s EXCEPT !.tree = setEntry(@, normalized,
                        DirEntryOf(parentPath, normalized, t))]
    IN  IF existing.type = "directory" THEN mkdirExisting(st, normalized, t)
        ELSE IF existing.type # "none" THEN Fail(st, "EEXIST")
        ELSE IF parent.type = "none"
             THEN IF ~recursive THEN Fail(st, "ENOENT")
                  ELSE IF normalizePath(parentPath) = normalized
                       THEN Fail(st, "RangeError")
                  ELSE LET r == mkdir(st, parentPath, recursive, t)
                       IN  IF r.err # "" THEN r ELSE Ok(made(r.st))
        ELSE IF parent.type # "directory" THEN Fail(st, "ENOTDIR")
        ELSE Ok(made(st))

\* The keys readdir's scan selects: entries whose parent field is the path.
ChildKeys(tr, normalized) ==
    {k \in DOMAIN tr : tr[k].parent = normalized}

\* The blob deletion and cache eviction unlink and rm do for a file, then
\* the removal of the entry.
RemoveEntry(st, normalized, entry) ==
    LET st1 == IF entry.type = "file" /\ entry.blobHash # NoHash
               THEN [st EXCEPT !.blobs = BlobDelete(@, entry.blobHash)]
               ELSE st
        st2 == IF entry.type = "file" /\ entry.fileDocId # NoDoc
               THEN [st1 EXCEPT !.fileHandles = @ \ {entry.fileDocId}]
               ELSE st1
    IN  [st2 EXCEPT !.tree = deleteEntry(@, normalized)]

unlink(st, path) ==
    LET normalized == normalizePath(path)
        entry == getEntry(st.tree, normalized)
    IN  IF entry.type = "none" THEN Fail(st, "ENOENT")
        ELSE Ok(RemoveEntry(st, normalized, entry))

RECURSIVE rm(_, _, _)
RECURSIVE rmChildren(_, _, _, _)
\* The loop over readdir's result: names holds the children not yet removed.
rmChildren(st, normalized, names, recursive) ==
    IF names = {} THEN Ok(st)
    ELSE LET name == CHOOSE n \in names : TRUE
             r == rm(st, ChildPath(normalized, name), recursive)
         IN  IF r.err # "" THEN r
             ELSE rmChildren(r.st, normalized, names \ {name}, recursive)

rm(st, path, recursive) ==
    LET normalized == normalizePath(path)
        entry == getEntry(st.tree, normalized)
        r == IF entry.type = "directory" /\ recursive
             THEN rmChildren(st, normalized,
                     {st.tree[k].name : k \in ChildKeys(st.tree, normalized)},
                     recursive)
             ELSE Ok(st)
    IN  IF entry.type = "none" THEN Fail(st, "ENOENT")
        ELSE IF r.err # "" THEN r
        ELSE Ok(RemoveEntry(r.st, normalized, entry))

\* dest is src or lies beneath it.
IsPrefix(a, b) == Len(a) <= Len(b) /\ SubSeq(b, 1, Len(a)) = a
Beneath(srcParts, destParts) ==
    Len(srcParts) < Len(destParts) /\ IsPrefix(srcParts, destParts)

\* cp of a directory into its own subtree: after mkdir(dest) the scan of src
\* finds the branch that leads to dest, and the copy of that branch is again
\* a copy of a directory into its own subtree, one level deeper, whose
\* mkdir creates the next level. The result "diverges" stands for a call
\* that does not complete.
RECURSIVE cp(_, _, _, _, _)
RECURSIVE cpChildren(_, _, _, _, _, _)
cpChildren(st, srcNorm, destNorm, names, recursive, t) ==
    IF names = {} THEN Ok(st)
    ELSE LET name == CHOOSE n \in names : TRUE
             r == cp(st, ChildPath(srcNorm, name), ChildPath(destNorm, name),
                     recursive, t)
         IN  IF r.err # "" THEN r
             ELSE cpChildren(r.st, srcNorm, destNorm, names \ {name},
                             recursive, t)

cp(st, src, dest, recursive, t) ==
    LET srcEntry == getEntry(st.tree, src)
        srcNorm == normalizePath(src)
        destNorm == normalizePath(dest)
        content == readFile(st, src)
        made == mkdir(st, dest, TRUE, t)
    IN  IF srcEntry.type = "none" THEN Fail(st, "ENOENT")
        ELSE IF srcEntry.type = "file"
             THEN IF content.err # "" THEN Fail(content.st, content.err)
                  ELSE writeFile(content.st, dest,
                                 [str |-> FALSE, v |-> content.bytes], t)
        ELSE IF ~recursive THEN Fail(st, "EISDIR")
        ELSE IF made.err # "" THEN made
        ELSE IF Beneath(Parts(srcNorm), Parts(destNorm))
             THEN Fail(made.st, "diverges")
        ELSE cpChildren(made.st, srcNorm, destNorm,
                {made.st.tree[k].name : k \in ChildKeys(made.st.tree, srcNorm)},
                recursive, t)

\* The entry mv stores at the destination.
MovedEntry(srcEntry, parentPath, destNorm, t) ==
    [type |-> srcEntry.type, parent |-> parentPath,
     name |-> getBasename(destNorm), size |-> srcEntry.size,
     mode |-> srcEntry.mode, mtime |-> t, ctime |-> srcEntry.ctime,
     fileDocId |-> srcEntry.fileDocId, blobHash |-> srcEntry.blobHash]

\* setEntry(destNorm, newEntry) and then deleteEntry(src).
MoveInTree(tr, src, destNorm, newEntry) ==
    deleteEntry(setEntry(tr, destNorm, newEntry), src)

\* A move that removes the source before it looks at the destination.
mv_DeletesFirst(st, src, dest, t) ==
    LET srcEntry == getEntry(st.tree, src)
        destNorm == normalizePath(dest)
        parentPath == getParentPath(destNorm)
        parent == getEntry(st.tree, parentPath)
        gone == [st EXCEPT !.tree = deleteEntry(@, src)]
    IN  IF srcEntry.type = "none" THEN [st |-> st, err |-> "ENOENT"]
        ELSE IF srcEntry.type # "file"
             THEN [st |-> st, err |-> "NotSupported"]
        ELSE IF parent.type # "directory"
             THEN [st |-> gone, err |-> "ENOENT"]
        ELSE [st |-> [gone EXCEPT !.tree = setEntry(@, destNorm,
                         MovedEntry(srcEntry, parentPath, destNorm, t))],
              err |-> ""]

mv(st, src, dest, t) ==
    LET srcEntry == getEntry(st.tree, src)
        destNorm == normalizePath(dest)
        parentPath == getParentPath(destNorm)
        parent == getEntry(st.tree, parentPath)
    IN  IF srcEntry.type = "none" THEN Fail(st, "ENOENT")
        ELSE IF srcEntry.type # "file" THEN Fail(st, "NotSupported")
        ELSE IF parent.type # "directory" THEN Fail(st, "ENOENT")
        ELSE Ok([st EXCEPT !.tree = MoveInTree(@, src, destNorm,
                    MovedEntry(srcEntry, parentPath, destNorm, t))])

\* A chmod that also clears the entry's mtime.
chmod_ClearsMtime(st, path, mode) ==
    LET normalized == normalizePath(path)
    IN  IF getEntry(st.tree, normalized).type = "none"
        THEN [st |-> st, err |-> "ENOENT"]
        ELSE [st |-> [st EXCEPT !.tree[normalized].mode = mode,
                                !.tree[normalized].mtime = 0],
              err |-> ""]

chmod(st, path, mode) ==
    LET normalized == normalizePath(path)
    IN  IF getEntry(st.tree, normalized).type = "none" THEN Fail(st, "ENOENT")
        ELSE Ok([st EXCEPT !.tree[normalized].mode = mode])

utimes(st, path, atime, mtime) ==
    LET normalized == normalizePath(path)
    IN  IF getEntry(st.tree, normalized).type = "none" THEN Fail(st, "ENOENT")
        ELSE Ok([st EXCEPT !.tree[normalized].mtime = mtime])

exists(st, path) == getEntry(st.tree, path).type # "none"

\* stat: the entry's metadata, or the error thrown.
stat(st, path) ==
    LET entry == getEntry(st.tree, path)
    IN  IF entry.type = "none"
        THEN [err |-> "ENOENT", size |-> 0, isFile |-> FALSE,
              isDirectory |-> FALSE, mode |-> 0, mtime |-> 0, ctime |-> 0]
        ELSE [err |-> "", size |-> entry.size,
              isFile |-> entry.type = "file",
              isDirectory |-> entry.type = "directory",
              mode |-> entry.mode, mtime |-> entry.mtime,
              ctime |-> entry.ctime]

\* readdir: the entries whose parent field is the path, or the error thrown.
readdir(st, path) ==
    LET normalized == normalizePath(path)
        entry == getEntry(st.tree, normalized)
    IN  IF entry.type = "none" THEN [err |-> "ENOENT", entries |-> {}]
        ELSE IF entry.type # "directory"
             THEN [err |-> "ENOTDIR", entries |-> {}]
        ELSE [err |-> "",
              entries |-> {[name |-> st.tree[k].name,
                            isFile |-> st.tree[k].type = "file",
                            isDirectory |-> st.tree[k].type = "directory"] :
                           k \in ChildKeys(st.tree, normalized)}]

\* load: an engine over the same root document, repo and blob store, with
\* a handle cache of its own.
load(st) == [st EXCEPT !.fileHandles = {}]

\* ----------------------------------------------------------- version control
\* The value a history query returns and the state after it (the handle of
\* the file's document is loaded into the cache).
getFileHeads(st, path) ==
    LET entry == getEntry(st.tree, path)
        st1 == getOrLoadFileHandle(st, entry.fileDocId)
        doc == HandleDoc(st1, entry.fileDocId)
    IN  IF entry.fileDocId = NoDoc THEN [st |-> st, heads |-> <<>>]
        ELSE IF doc = <<>> THEN [st |-> st1, heads |-> <<>>]
        ELSE [st |-> st1, heads |-> getHeads(entry.fileDocId, doc)]

getFileAt(st, path, heads) ==
    LET entry == getEntry(st.tree, path)
        st1 == getOrLoadFileHandle(st, entry.fileDocId)
        doc == HandleDoc(st1, entry.fileDocId)
    IN  IF entry.fileDocId = NoDoc THEN [st |-> st, text |-> <<>>]
        ELSE [st |-> st1, text |-> viewContent(entry.fileDocId, doc, heads)]

\* getFileHistory's hashes: one per change of the file's document.
getFileHistory(st, path) ==
    LET entry == getEntry(st.tree, path)
        doc == HandleDoc(getOrLoadFileHandle(st, entry.fileDocId),
                         entry.fileDocId)
    IN  IF entry.fileDocId = NoDoc THEN <<>>
        ELSE [i \in 1..Len(doc) |-> <<entry.fileDocId, i>>]

\* ------------------------------------------------------------------ inputs
RootPath == <<"/">>
PathA == <<"/", "a">>
PathB == <<"/", "b">>
PathAB == <<"/", "a", "/", "b">>
Paths == {RootPath, PathA, PathB, PathAB}

TextX == [str |-> TRUE, v |-> <<120>>]
TextBomX == [str |-> TRUE, v |-> <<BomChar, 120>>]
BytesX == [str |-> FALSE, v |-> <<120>>]
BytesBomX == [str |-> FALSE, v |-> <<239, 187, 191, 120>>]
BytesBin == [str |-> FALSE, v |-> <<255>>]
Contents == {TextX, TextBomX, BytesX, BytesBomX, BytesBin}
AppendTexts == {<<120>>}
Modes == {384}
Mtimes == {7}

\* ------------------------------------------------------------ state machine
VARIABLES
    tree,         \* the root document's tree: normalized path -> entry
    docs,         \* the repo's file documents
    blobs,        \* the blob store: hash -> bytes
    fileHandles,  \* the engine's cache of file document handles
    now,          \* the clock Date.now() reads
    nops,         \* engine calls made so far
    last,         \* the latest engine call: its arguments and its outcome
    threw,        \* some engine call so far has thrown
    cap,          \* heads a caller captured with getFileHeads after a write
    pending,      \* writeFile calls suspended at an await, in invocation order
    serial,       \* the engine the invoked calls produce when run one by one
    disk,         \* a FileSystemBlobStore's base directory
    stored,       \* the map its set and delete calls describe: hash -> bytes
    daemon,       \* the data directory and the daemon process started on it
    server,       \* one server connection and the lines it has been sent
    client        \* one client connection and the calls made on it

vars == <<tree, docs, blobs, fileHandles, now, nops, last, threw, cap,
          pending, serial, disk, stored, daemon, server, client>>

\* The daemon process and the two ends of a connection, which no engine
\* call touches.
Host == <<daemon, server, client>>

St == [tree |-> tree, docs |-> docs, blobs |-> blobs,
       fileHandles |-> fileHandles]

NoContent == [str |-> TRUE, v |-> <<>>]
NoCall == [op |-> "create", path |-> <<>>, dest |-> <<>>, content |-> NoContent,
           recursive |-> FALSE, err |-> "", t |-> 0, was |-> "none"]
NoCap == [valid |-> FALSE, path |-> <<>>, heads |-> <<>>,
          content |-> NoContent]

\* What a path holds: "none", "directory", "text" or "blob".
KindAt(tr, path) ==
    LET e == getEntry(tr, path)
    IN  IF e.type # "file" THEN e.type
        ELSE IF e.blobHash # NoHash THEN "blob" ELSE "text"

\* A call's record; was is what the call's target (dest for cp and mv, else
\* path) held when the call was made.
Call(op, path, dest, content, recursive, err) ==
    [op |-> op, path |-> path, dest |-> dest, content |-> content,
     recursive |-> recursive, err |-> err, t |-> now,
     was |-> KindAt(tree, IF dest = <<>> THEN path ELSE dest)]

Record(call) ==
    /\ last' = call
    /\ threw' = (threw \/ call.err # "")

\* AutomergeFsMultiDoc.create at clock 0.
\* ------------------------------------------------------- daemon and transport
\* existsSync(rootDocIdFile) is false.
NoFile == <<>>

\* A data directory no daemon has been started on: no root-doc-id file, no
\* document in the repo's storage, no process.  pc is the running start's
\* position in AutomergeFsLive, handle the root handle's url (0: none),
\* runs the root handle's url of every start that got its engine, and
\* written the number of times the root-doc-id file was written.
NewDataDir ==
    [file |-> NoFile, repo |-> {}, pc |-> "stopped", handle |-> 0,
     runs |-> <<>>, written |-> 0, starts |-> 0]

\* makeServerConnection: an empty buffer, not closed.  out is what was
\* written to the socket, received the requests that arrived as complete
\* lines while the connection was open, chunks the number of data events.
NewServerConnection ==
    [buffer |-> <<>>, closed |-> FALSE, out |-> <<>>, received |-> <<>>,
     chunks |-> 0]

\* connectClient after open: nextId = 1, an empty pending map and buffer,
\* not closed.  pending maps an id to the call that waits for it; calls is
\* every call made, with the id it was given (0: none), the number of times
\* it was resumed and the outcome of its first resumption; arrived is every
\* message parsed from the socket, with the number of calls made before
\* it; ended is set when socket.end() was called.
NewClientConnection ==
    [nextId |-> 1, pending |-> [i \in {} |-> 0], buffer |-> <<>>,
     closed |-> FALSE, ended |-> FALSE, calls |-> <<>>, arrived |-> <<>>,
     events |-> 0]

Init ==
    /\ tree = NewEngine(0).tree
    /\ docs = NewEngine(0).docs
    /\ blobs = NewEngine(0).blobs
    /\ fileHandles = NewEngine(0).fileHandles
    /\ now = 0
    /\ nops = 0
    /\ last = NoCall
    /\ threw = FALSE
    /\ cap = NoCap
    /\ pending = <<>>
    /\ serial = NewEngine(0)
    /\ disk = EmptyDisk
    /\ stored = [h \in {} |-> <<>>]
    /\ daemon = NewDataDir
    /\ server = NewServerConnection
    /\ client = NewClientConnection

\* The state a call leaves, whether it returned or threw.
Commit(st) ==
    /\ tree' = st.tree
    /\ docs' = st.docs
    /\ blobs' = st.blobs
    /\ fileHandles' = st.fileHandles
    /\ nops' = nops + 1
    /\ now' = now
    /\ UNCHANGED <<pending, serial, disk, stored, Host>>

\* The captured heads stay under observation while the calls that follow are
\* text writes to the captured path and queries.
KeepCap(keep) == cap' = IF keep THEN cap ELSE NoCap

Tick ==
    /\ now < MaxClock
    /\ now' = now + 1
    /\ UNCHANGED <<tree, docs, blobs, fileHandles, nops, last, threw, cap,
                   pending, serial, disk, stored, Host>>

WriteFile(p, c) ==
    /\ nops < MaxOps
    /\ LET r == writeFile(St, p, c, now)
       IN  /\ Commit(r.st)
           /\ Record(Call("write", p, <<>>, c, FALSE, r.err))
           /\ KeepCap(r.err = "" /\ ~ContentIsBinary(c)
                      /\ normalizePath(p) = cap.path)

AppendFile(p, s) ==
    /\ nops < MaxOps
    /\ LET r == appendFile(St, p, s, now)
       IN  /\ Commit(r.st)
           /\ Record(Call("append", p, <<>>, [str |-> TRUE, v |-> s],
                       FALSE, r.err))
           /\ KeepCap(FALSE)

Mkdir(p, rec) ==
    /\ nops < MaxOps
    /\ LET r == mkdir(St, p, rec, now)
       IN  /\ Commit(r.st)
           /\ Record(Call("mkdir", p, <<>>, NoContent, rec, r.err))
           /\ KeepCap(FALSE)

Unlink(p) ==
    /\ nops < MaxOps
    /\ LET r == unlink(St, p)
       IN  /\ Commit(r.st)
           /\ Record(Call("unlink", p, <<>>, NoContent, FALSE, r.err))
           /\ KeepCap(FALSE)

Rm(p, rec) ==
    /\ nops < MaxOps
    /\ LET r == rm(St, p, rec)
       IN  /\ Commit(r.st)
           /\ Record(Call("rm", p, <<>>, NoContent, rec, r.err))
           /\ KeepCap(FALSE)

Cp(p, q, rec) ==
    /\ nops < MaxOps
    /\ LET r == cp(St, p, q, rec, now)
       IN  /\ r.err # "diverges"
           /\ Commit(r.st)
           /\ Record(Call("cp", p, q, NoContent, rec, r.err))
           /\ KeepCap(FALSE)

Mv(p, q) ==
    /\ nops < MaxOps
    /\ LET r == mv(St, p, q, now)
       IN  /\ Commit(r.st)
           /\ Record(Call("mv", p, q, NoContent, FALSE, r.err))
           /\ KeepCap(FALSE)

Chmod(p, m) ==
    /\ nops < MaxOps
    /\ LET r == chmod(St, p, m)
       IN  /\ Commit(r.st)
           /\ Record(Call("chmod", p, <<>>, NoContent, FALSE, r.err))
           /\ KeepCap(FALSE)

Utimes(p, m) ==
    /\ nops < MaxOps
    /\ LET r == utimes(St, p, m, m)
       IN  /\ Commit(r.st)
           /\ Record(Call("utimes", p, <<>>, NoContent, FALSE, r.err))
           /\ KeepCap(FALSE)

ReadFile(p) ==
    /\ nops < MaxOps
    /\ LET r == readFile(St, p)
       IN  /\ Commit(r.st)
           /\ Record(Call("read", p, <<>>, NoContent, FALSE, r.err))
           /\ KeepCap(TRUE)

\* getFileHeads called right after a successful text write to the same path:
\* the caller keeps the heads and the content it wrote.
GetFileHeads(p) ==
    /\ nops < MaxOps
    /\ LET r == getFileHeads(St, p)
           fresh == /\ last.op = "write" /\ last.err = ""
                    /\ ~ContentIsBinary(last.content)
                    /\ normalizePath(last.path) = normalizePath(p)
       IN  /\ Commit(r.st)
           /\ Record(Call("heads", p, <<>>, NoContent, FALSE, ""))
           /\ cap' = IF fresh
                     THEN [valid |-> TRUE, path |-> normalizePath(p),
                           heads |-> r.heads,
                           content |-> last.content]
                     ELSE cap

Next ==
    \/ Tick
    \/ \E p \in Paths, c \in Contents : WriteFile(p, c)
    \/ \E p \in Paths, s \in AppendTexts : AppendFile(p, s)
    \/ \E p \in Paths, rec \in BOOLEAN : Mkdir(p, rec)
    \/ \E p \in Paths : Unlink(p)
    \/ \E p \in Paths, rec \in BOOLEAN : Rm(p, rec)
    \/ \E p \in Paths, q \in Paths, rec \in BOOLEAN : Cp(p, q, rec)
    \/ \E p \in Paths, q \in Paths : Mv(p, q)
    \/ \E p \in Paths, m \in Modes : Chmod(p, m)
    \/ \E p \in Paths, m \in Mtimes : Utimes(p, m)
    \/ \E p \in Paths : ReadFile(p)
    \/ \E p \in Paths : GetFileHeads(p)

Spec == Init /\ [][Next]_vars

\* The engine driven by the calls that create, rewrite, move, copy and
\* remove entries and bodies, at one clock value: no clock ticks and no
\* metadata-only calls (chmod, utimes).
NextBody ==
    \/ \E p \in Paths, c \in Contents : WriteFile(p, c)
    \/ \E p \in Paths, s \in AppendTexts : AppendFile(p, s)
    \/ \E p \in Paths, rec \in BOOLEAN : Mkdir(p, rec)
    \/ \E p \in Paths : Unlink(p)
    \/ \E p \in Paths, rec \in BOOLEAN : Rm(p, rec)
    \/ \E p \in Paths, q \in Paths, rec \in BOOLEAN : Cp(p, q, rec)
    \/ \E p \in Paths, q \in Paths : Mv(p, q)
    \/ \E p \in Paths : ReadFile(p)
    \/ \E p \in Paths : GetFileHeads(p)

SpecBody == Init /\ [][NextBody]_vars

\* The engine driven over a chain of three nested paths by the calls that
\* build and remove directory trees, with the clock running.
PathABC == <<"/", "a", "/", "b", "/", "c">>
DeepPaths == {PathA, PathAB, PathABC}
DeepContents == {TextX, BytesBin}

NextDeep ==
    \/ Tick
    \/ \E p \in DeepPaths, c \in DeepContents : WriteFile(p, c)
    \/ \E p \in DeepPaths, rec \in BOOLEAN : Mkdir(p, rec)
    \/ \E p \in DeepPaths : Unlink(p)
    \/ \E p \in DeepPaths, rec \in BOOLEAN : Rm(p, rec)

SpecDeep == Init /\ [][NextDeep]_vars

\* ------------------------------------------------- calls that are not awaited
\* writeFile is an async function: it runs at once up to its first await and
\* the rest runs when the awaited promise settles.  A suspended call keeps
\* the values it computed before the await, the entry it found at the path
\* (existing) among them.  io says that the await is on storage (the blob
\* store, or the repo for a handle that is not cached) and not on a promise
\* that is already settled.
Suspended(stage, normalized, parentPath, content, existing, t, fileDocId, io) ==
    [stage |-> stage, normalized |-> normalized, parentPath |-> parentPath,
     content |-> content, existing |-> existing, t |-> t,
     fileDocId |-> fileDocId, io |-> io]

\* writeFile up to its first await: k holds the suspended rest of the call,
\* and is empty when the call threw or ran to its end without an await.
writeFileStart(st, path, content, t) ==
    LET normalized == normalizePath(path)
        parentPath == getParentPath(normalized)
        parent == getEntry(st.tree, parentPath)
        existing == getEntry(st.tree, normalized)
        text == ContentText(content)
        size == Len(ContentBytes(content))
        st1 == createFileDoc(st, text)
    IN  IF parent.type # "directory"
        THEN [st |-> st, err |-> "ENOENT", k |-> <<>>]
        ELSE IF ContentIsBinary(content)
        THEN [st |-> st, err |-> "",
              k |-> <<Suspended("blobStore.set", normalized, parentPath,
                                content, existing, t, NoDoc, TRUE)>>]
        ELSE IF existing.fileDocId # NoDoc
        THEN [st |-> st, err |-> "",
              k |-> <<Suspended("getOrLoadFileHandle", normalized,
                                parentPath, content, existing, t,
                                existing.fileDocId,
                                existing.fileDocId \notin st.fileHandles)>>]
        ELSE IF existing.blobHash # NoHash
        THEN [st |-> st1, err |-> "",
              k |-> <<Suspended("blobStore.delete", normalized, parentPath,
                                content, existing, t, Len(st.docs) + 1,
                                TRUE)>>]
        ELSE [st |-> [st1 EXCEPT !.tree = setEntry(@, normalized,
                         TextFileEntry(parentPath, normalized, size, existing,
                                       t, Len(st.docs) + 1))],
              err |-> "", k |-> <<>>]

\* The next part of a suspended writeFile, run in the state the engine is in
\* when the awaited promise settles.  blobStore.delete removes the file while
\* the call is suspended; the statements after the await run as a later job.
writeFileResume(st, k) ==
    IF k.stage = "blobStore.set"
    THEN [st |-> WriteBinary(st, k.normalized, k.parentPath,
                             ContentBytes(k.content), k.existing, k.t),
          err |-> "", k |-> <<>>]
    ELSE IF k.stage = "getOrLoadFileHandle"
    THEN [st |-> WriteText(st, k.normalized, k.parentPath,
                           ContentText(k.content),
                           Len(ContentBytes(k.content)), k.existing, k.t),
          err |-> "", k |-> <<>>]
    ELSE IF k.stage = "blobStore.delete"
    THEN [st |-> [st EXCEPT !.blobs = BlobDelete(@, k.existing.blobHash)],
          err |-> "", k |-> <<[k EXCEPT !.stage = "setEntry", !.io = FALSE]>>]
    ELSE [st |-> [st EXCEPT !.tree = setEntry(@, k.normalized,
                     TextFileEntry(k.parentPath, k.normalized,
                                   Len(ContentBytes(k.content)),
                                   k.existing, k.t, k.fileDocId))],
          err |-> "", k |-> <<>>]

\* The statements of unlink, and of rm without recursive, after the blob of
\* the removed entry is dealt with.
RemoveTail(st, normalized, entry) ==
    LET st1 == IF entry.type = "file" /\ entry.fileDocId # NoDoc
               THEN [st EXCEPT !.fileHandles = @ \ {entry.fileDocId}]
               ELSE st
    IN  [st1 EXCEPT !.tree = deleteEntry(@, normalized)]

\* unlink up to its await of blobStore.delete; a call on an entry without a
\* blob has no await and runs to its end.
unlinkStart(st, path) ==
    LET normalized == normalizePath(path)
        entry == getEntry(st.tree, normalized)
    IN  IF entry.type = "none" THEN [st |-> st, err |-> "ENOENT", k |-> <<>>]
        ELSE IF entry.type = "file" /\ entry.blobHash # NoHash
        THEN [st |-> st, err |-> "",
              k |-> <<Suspended("unlink: blobStore.delete", normalized,
                                <<>>, NoContent, entry, 0, NoDoc, TRUE)>>]
        ELSE [st |-> RemoveTail(st, normalized, entry), err |-> "",
              k |-> <<>>]

\* rm without recursive: the same statements as unlink (605-610, 622-629).
rmStart(st, path) == unlinkStart(st, path)

unlinkResume(st, k) ==
    IF k.stage = "unlink: blobStore.delete"
    THEN [st |-> [st EXCEPT !.blobs = BlobDelete(@, k.existing.blobHash)],
          err |-> "",
          k |-> <<[k EXCEPT !.stage = "unlink: deleteEntry", !.io = FALSE]>>]
    ELSE [st |-> RemoveTail(st, k.normalized, k.existing), err |-> "",
          k |-> <<>>]

\* readFile up to its await: the entry is read before, the body after.
readFileStart(st, path) ==
    LET entry == getEntry(st.tree, path)
    IN  IF entry.type = "none" THEN [st |-> st, err |-> "ENOENT", k |-> <<>>]
        ELSE IF entry.type # "file"
        THEN [st |-> st, err |-> "EISDIR", k |-> <<>>]
        ELSE IF entry.blobHash # NoHash
        THEN [st |-> st, err |-> "",
              k |-> <<Suspended("read: blobStore.get", normalizePath(path),
                                <<>>, NoContent, entry, 0, NoDoc, TRUE)>>]
        ELSE IF entry.fileDocId # NoDoc
        THEN [st |-> st, err |-> "",
              k |-> <<Suspended("read: getOrLoadFileHandle",
                                normalizePath(path), <<>>, NoContent, entry,
                                0, entry.fileDocId,
                                entry.fileDocId \notin st.fileHandles)>>]
        ELSE [st |-> st, err |-> "", k |-> <<>>]

readFileResume(st, k) ==
    IF k.stage = "read: blobStore.get"
    THEN [st |-> st,
          err |-> IF BlobHas(st.blobs, k.existing.blobHash) THEN ""
                  ELSE "Blob not found",
          k |-> <<>>]
    ELSE [st |-> getOrLoadFileHandle(st, k.fileDocId), err |-> "", k |-> <<>>]

\* The locals a suspended rm with recursive holds: the directory's entry,
\* the child paths readdir returned, those still to remove, and the entry of
\* the child being removed.
SuspendedRm(stage, normalized, entry, children, todo, child, io) ==
    [stage |-> stage, normalized |-> normalized, parentPath |-> <<>>,
     content |-> NoContent, existing |-> entry, t |-> 0, fileDocId |-> NoDoc,
     io |-> io, children |-> children, todo |-> todo, child |-> child]

\* rm with recursive up to its first await.  children is readdir's answer
\* as child paths, in the order readdir returned them.
rmRecursiveStart(st, path, children) ==
    LET normalized == normalizePath(path)
        entry == getEntry(st.tree, normalized)
    IN  IF entry.type = "directory"
        THEN [st |-> st, err |-> "",
              k |-> <<SuspendedRm("rm: children", normalized, entry,
                                  children, children, NullEntry, FALSE)>>]
        ELSE rmStart(st, path)

\* The next part of a suspended rm with recursive.  At "rm: children" the
\* loop calls rm on the next child, which runs to its own first await: a
\* text file is removed at once, a blob file waits for blobStore.delete, a
\* directory for its readdir.  When no child is left the directory's own
\* entry is deleted.  The children here have no children of their own.
rmRecursiveResume(st, k) ==
    IF k.stage = "rm: child blobStore.delete"
    THEN [st |-> [st EXCEPT !.blobs = BlobDelete(@, k.child.blobHash)],
          err |-> "",
          k |-> <<[k EXCEPT !.stage = "rm: child deleteEntry",
                            !.io = FALSE]>>]
    ELSE IF k.stage = "rm: child deleteEntry"
    THEN [st |-> RemoveTail(st, Head(k.todo), k.child), err |-> "",
          k |-> <<[k EXCEPT !.stage = "rm: children",
                            !.todo = Tail(@)]>>]
    ELSE IF k.todo = <<>>
    THEN [st |-> RemoveTail(st, k.normalized, k.existing), err |-> "",
          k |-> <<>>]
    ELSE LET c == Head(k.todo)
             e == getEntry(st.tree, c)
         IN  IF e.type = "none"
             THEN [st |-> st, err |-> "ENOENT", k |-> <<>>]
             ELSE IF e.type = "directory"
             THEN [st |-> st, err |-> "",
                   k |-> <<[k EXCEPT !.stage = "rm: child deleteEntry",
                                     !.child = e]>>]
             ELSE IF e.blobHash # NoHash
             THEN [st |-> st, err |-> "",
                   k |-> <<[k EXCEPT !.stage = "rm: child blobStore.delete",
                                     !.child = e, !.io = TRUE]>>]
             ELSE [st |-> RemoveTail(st, c, e), err |-> "",
                   k |-> <<[k EXCEPT !.todo = Tail(@)]>>]

RmStages ==
    {"rm: children", "rm: child blobStore.delete", "rm: child deleteEntry"}

\* The continuation a suspended call runs when its promise settles.
Continue(st, k) ==
    IF k.stage \in {"unlink: blobStore.delete", "unlink: deleteEntry"}
    THEN unlinkResume(st, k)
    ELSE IF k.stage \in RmStages THEN rmRecursiveResume(st, k)
    ELSE IF k.stage \in {"read: blobStore.get", "read: getOrLoadFileHandle"}
    THEN readFileResume(st, k)
    ELSE writeFileResume(st, k)

AsyncPaths == {PathA, PathB}
AsyncContents == {TextX, BytesBin}

\* A caller invokes writeFile and does not await it.
InvokeWrite(p, c) ==
    /\ nops < MaxOps
    /\ LET r == writeFileStart(St, p, c, now)
       IN  /\ tree' = r.st.tree
           /\ docs' = r.st.docs
           /\ blobs' = r.st.blobs
           /\ fileHandles' = r.st.fileHandles
           /\ pending' = pending \o r.k
           /\ Record(Call("write", p, <<>>, c, FALSE, r.err))
    /\ serial' = writeFile(serial, p, c, now).st
    /\ nops' = nops + 1
    /\ UNCHANGED <<now, cap, disk, stored, Host>>

\* A caller invokes chmod, which has no await and runs to its end.
InvokeChmod(p, m) ==
    /\ nops < MaxOps
    /\ LET r == chmod(St, p, m)
       IN  /\ tree' = r.st.tree
           /\ Record(Call("chmod", p, <<>>, NoContent, FALSE, r.err))
    /\ serial' = chmod(serial, p, m).st
    /\ nops' = nops + 1
    /\ UNCHANGED <<docs, blobs, fileHandles, now, cap, pending, disk,
                   stored, Host>>

\* The engine state and the suspended rest an invoked call leaves.
Invoked(r) ==
    /\ tree' = r.st.tree
    /\ docs' = r.st.docs
    /\ blobs' = r.st.blobs
    /\ fileHandles' = r.st.fileHandles
    /\ pending' = pending \o r.k
    /\ nops' = nops + 1
    /\ UNCHANGED <<now, cap, disk, stored, Host>>

\* A caller invokes unlink and does not await it.
InvokeUnlink(p) ==
    /\ nops < MaxOps
    /\ LET r == unlinkStart(St, p)
       IN  /\ Invoked(r)
           /\ Record(Call("unlink", p, <<>>, NoContent, FALSE, r.err))
    /\ serial' = unlink(serial, p).st

\* A caller invokes rm without recursive and does not await it.
InvokeRm(p) ==
    /\ nops < MaxOps
    /\ LET r == rmStart(St, p)
       IN  /\ Invoked(r)
           /\ Record(Call("rm", p, <<>>, NoContent, FALSE, r.err))
    /\ serial' = rm(serial, p, FALSE).st

\* The orders in which a scan can return the members of S.
Orderings(S) ==
    {s \in [1..Cardinality(S) -> S] :
        \A i, j \in DOMAIN s : s[i] = s[j] => i = j}

\* A caller invokes rm with recursive and does not await it.  The order of
\* readdir's answer is the key order of the tree, which is not kept here.
InvokeRmRecursive(p) ==
    /\ nops < MaxOps
    /\ \E children \in Orderings(ChildKeys(tree, normalizePath(p))) :
          LET r == rmRecursiveStart(St, p, children)
          IN  /\ Invoked(r)
              /\ Record(Call("rm", p, <<>>, NoContent, TRUE, r.err))
    /\ serial' = rm(serial, p, TRUE).st

\* A caller invokes readFile and does not await it.
InvokeRead(p) ==
    /\ nops < MaxOps
    /\ LET r == readFileStart(St, p)
       IN  /\ Invoked(r)
           /\ Record(Call("read", p, <<>>, NoContent, FALSE, r.err))
    /\ serial' = readFile(serial, p).st

\* A caller invokes mkdir without recursive, which has no await and runs to
\* its end.
InvokeMkdir(p) ==
    /\ nops < MaxOps
    /\ LET r == mkdir(St, p, FALSE, now)
       IN  /\ Invoked([st |-> r.st, k |-> <<>>])
           /\ Record(Call("mkdir", p, <<>>, NoContent, FALSE, r.err))
    /\ serial' = mkdir(serial, p, FALSE, now).st

\* The awaited promise of a suspended call settles and the call runs to its
\* next await or to its end.  Calls suspended on settled promises resume
\* first, in the order they were suspended; calls waiting for storage resume
\* in any order.  A readFile that ends here reports its outcome.
Resume(i) ==
    /\ i \in 1..Len(pending)
    /\ LET settled == {j \in 1..Len(pending) : ~pending[j].io}
       IN  settled # {} => i \in settled /\ \A j \in settled : i <= j
    /\ LET k == pending[i]
           r == Continue(St, k)
       IN  /\ tree' = r.st.tree
           /\ docs' = r.st.docs
           /\ blobs' = r.st.blobs
           /\ fileHandles' = r.st.fileHandles
           /\ pending' = SubSeq(pending, 1, i - 1) \o r.k \o
                         SubSeq(pending, i + 1, Len(pending))
           /\ IF k.stage \in {"read: blobStore.get",
                              "read: getOrLoadFileHandle"}
              THEN Record(Call("read", k.normalized, <<>>, NoContent, FALSE,
                               r.err))
              ELSE UNCHANGED <<last, threw>>
    /\ UNCHANGED <<now, nops, cap, serial, disk, stored, Host>>

NextAsync ==
    \/ \E p \in AsyncPaths, c \in AsyncContents : InvokeWrite(p, c)
    \/ \E p \in AsyncPaths, m \in Modes : InvokeChmod(p, m)
    \/ \E i \in 1..MaxOps : Resume(i)

SpecAsync == Init /\ [][NextAsync]_vars

\* Unawaited writes, removals and reads of one path.
RacePaths == {PathB}

NextRace ==
    \/ \E p \in RacePaths, c \in AsyncContents : InvokeWrite(p, c)
    \/ \E p \in RacePaths : InvokeUnlink(p)
    \/ \E p \in RacePaths : InvokeRm(p)
    \/ \E p \in RacePaths : InvokeRead(p)
    \/ \E i \in 1..MaxOps : Resume(i)

SpecRace == Init /\ [][NextRace]_vars

\* Unawaited calls on a directory and on a file in it.
NestedPaths == {PathA, PathAB}

NextInterleave ==
    \/ \E p \in NestedPaths, c \in AsyncContents : InvokeWrite(p, c)
    \/ \E p \in NestedPaths : InvokeMkdir(p)
    \/ \E p \in NestedPaths : InvokeRm(p)
    \/ \E p \in NestedPaths, m \in Modes : InvokeChmod(p, m)
    \/ \E i \in 1..MaxOps : Resume(i)

SpecInterleave == Init /\ [][NextInterleave]_vars

\* Unawaited calls on a directory and on two entries in it, with removal of
\* the whole directory.
PathAC == <<"/", "a", "/", "c">>
SweepPaths == {PathA, PathAB, PathAC}

NextSweep ==
    \/ \E p \in SweepPaths, c \in AsyncContents : InvokeWrite(p, c)
    \/ \E p \in SweepPaths : InvokeMkdir(p)
    \/ \E p \in SweepPaths : InvokeRmRecursive(p)
    \/ \E i \in 1..MaxOps : Resume(i)

SpecSweep == Init /\ [][NextSweep]_vars

\* The engine class declares no close member and keeps no closed flag: a
\* close() call finds no method, throws TypeError, and leaves the engine as
\* it was.
Close ==
    /\ nops < MaxOps
    /\ Commit(St)
    /\ Record(Call("close", RootPath, <<>>, NoContent, FALSE, "TypeError"))
    /\ KeepCap(FALSE)

NextLifecycle ==
    \/ Close
    \/ \E p \in AsyncPaths, c \in AsyncContents : WriteFile(p, c)
    \/ \E p \in AsyncPaths : ReadFile(p)
    \/ \E p \in AsyncPaths : GetFileHeads(p)

SpecLifecycle == Init /\ [][NextLifecycle]_vars


\* Spellings of the root, of /a and of /a/b with repeated and trailing "/".
SlashPaths ==
    {RootPath, <<"/", "/">>, PathA, <<"/", "/", "a", "/">>, PathAB,
     <<"/", "a", "/", "/", "b", "/">>}

NextSlash ==
    \/ \E p \in SlashPaths, c \in AsyncContents : WriteFile(p, c)
    \/ \E p \in SlashPaths : Mkdir(p, FALSE)
    \/ \E p \in SlashPaths : Rm(p, FALSE)
    \/ \E p \in SlashPaths : ReadFile(p)

SpecSlash == Init /\ [][NextSlash]_vars


\* Hashes of one, two and three characters; the three-character ones begin
\* with "00" and with the two-character one.
Hashes == {<<"a">>, <<"0", "0", "a">>, <<"a", "a">>, <<"a", "a", "0">>}
BlobData == {<<1>>, <<2>>}

\* FileSystemBlobStore.set(h, data) on the store at disk.
FsSet(h, data) ==
    /\ nops < MaxOps
    /\ LET r == FsBlobSet(disk, h, data)
       IN  /\ disk' = r.disk
           /\ stored' = IF r.err = "" THEN BlobSet(stored, h, data) ELSE stored
           /\ Record(Call("blobSet", h, <<>>, [str |-> FALSE, v |-> data],
                          FALSE, r.err))
    /\ nops' = nops + 1
    /\ UNCHANGED <<tree, docs, blobs, fileHandles, now, cap, pending, serial,
                   Host>>

\* FileSystemBlobStore.delete(h).
FsDelete(h) ==
    /\ nops < MaxOps
    /\ \E dirExists \in BOOLEAN :
          LET r == FsBlobDelete(disk, h, dirExists)
          IN  /\ disk' = r.disk
              /\ stored' = IF r.err = "" THEN BlobDelete(stored, h)
                           ELSE stored
              /\ Record(Call("blobDelete", h, <<>>, NoContent, FALSE, r.err))
    /\ nops' = nops + 1
    /\ UNCHANGED <<tree, docs, blobs, fileHandles, now, cap, pending, serial,
                   Host>>

NextBlobStore ==
    \/ \E h \in Hashes, data \in BlobData : FsSet(h, data)
    \/ \E h \in Hashes : FsDelete(h)

SpecBlobStore == Init /\ [][NextBlobStore]_vars


\* The engine driven by the calls that write bodies and metadata of entries
\* beneath the root, with the clock running.
NextMeta ==
    \/ Tick
    \/ \E p \in AsyncPaths, c \in AsyncContents : WriteFile(p, c)
    \/ \E p \in AsyncPaths, s \in AppendTexts : AppendFile(p, s)
    \/ \E p \in AsyncPaths : Mkdir(p, FALSE)
    \/ \E p \in AsyncPaths : Unlink(p)
    \/ \E p \in AsyncPaths, m \in Modes : Chmod(p, m)
    \/ \E p \in AsyncPaths, m \in Mtimes : Utimes(p, m)

SpecMeta == Init /\ [][NextMeta]_vars


\* Byte inputs to isBinary.  Well-formed UTF-8: "x", U+00E9, U+20AC,
\* U+1F600 and the empty sequence.
ValidUtf8Bytes ==
    {<<>>, <<120>>, <<195, 169>>, <<226, 130, 172>>, <<240, 159, 152, 128>>}

\* Ill-formed: a byte no sequence contains, a lone continuation byte, an
\* overlong form, an encoded surrogate, a truncated sequence, and a code
\* point above U+10FFFF.
InvalidUtf8Bytes ==
    {<<255>>, <<128>>, <<192, 128>>, <<237, 160, 128>>, <<120, 226, 130>>,
     <<244, 144, 128, 128>>}

ClassifyContents ==
    {[str |-> TRUE, v |-> <<120>>], [str |-> TRUE, v |-> <<233>>]}
      \cup {[str |-> FALSE, v |-> b] :
               b \in ValidUtf8Bytes \cup InvalidUtf8Bytes}

NextClassify ==
    \E p \in AsyncPaths, c \in ClassifyContents : WriteFile(p, c)

SpecClassify == Init /\ [][NextClassify]_vars


\* One call of mkdir with recursive, up to the point where it returns,
\* throws, stores its entry, or calls itself on the parent path.
mkdirEnter(st, path) ==
    LET normalized == normalizePath(path)
        existing == getEntry(st.tree, normalized)
        parentPath == getParentPath(normalized)
        parent == getEntry(st.tree, parentPath)
    IN  IF existing.type = "directory" THEN [kind |-> "return", err |-> ""]
        ELSE IF existing.type # "none" THEN [kind |-> "throw", err |-> "EEXIST"]
        ELSE IF parent.type = "none" THEN [kind |-> "recurse", err |-> ""]
        ELSE IF parent.type # "directory"
        THEN [kind |-> "throw", err |-> "ENOTDIR"]
        ELSE [kind |-> "make", err |-> ""]

\* A frame of mkdir that has called mkdir(parentPath) and awaits it.
MkdirFrame(path, stage) ==
    Suspended(stage, normalizePath(path), getParentPath(normalizePath(path)),
              NoContent, NullEntry, 0, NoDoc, FALSE)

\* The call on path, made by the caller or by the frame on top of the stack,
\* runs to one of its four outcomes.  frames is the stack beneath it.
MkdirRun(path, frames) ==
    LET o == mkdirEnter(St, path)
        normalized == normalizePath(path)
        made == setEntry(tree, normalized,
                         DirEntryOf(getParentPath(normalized), normalized, now))
        back == IF frames = <<>> THEN <<>>
                ELSE [frames EXCEPT ![Len(frames)].stage = "mkdir: setEntry"]
    IN  /\ tree' = IF o.kind = "make" THEN made ELSE tree
        /\ pending' =
              IF o.kind = "throw" THEN <<>>
              ELSE IF o.kind = "recurse"
              THEN IF Len(frames) < MaxStack
                   THEN Append(frames, MkdirFrame(path, "mkdir: await mkdir"))
                   ELSE <<>>
              ELSE back
        /\ Record(Call("mkdir", path, <<>>, NoContent, TRUE,
                       IF o.kind = "recurse" /\ Len(frames) >= MaxStack
                       THEN "RangeError" ELSE o.err))
        /\ UNCHANGED <<docs, blobs, fileHandles, now, cap, serial, disk,
                       stored, Host>>

\* A caller invokes mkdir with recursive; no other call is in progress.
MkdirCall(p) ==
    /\ nops < MaxOps
    /\ pending = <<>>
    /\ MkdirRun(p, <<>>)
    /\ nops' = nops + 1

\* The frame on top of the stack calls mkdir on its parent path.
MkdirDescend ==
    /\ pending # <<>>
    /\ Last(pending).stage = "mkdir: await mkdir"
    /\ MkdirRun(Last(pending).parentPath, pending)
    /\ nops' = nops

\* The call a frame awaited has returned: the frame stores its entry and
\* returns to the frame beneath it.
MkdirUnwind ==
    /\ pending # <<>>
    /\ Last(pending).stage = "mkdir: setEntry"
    /\ LET f == Last(pending)
           rest == Front(pending)
       IN  /\ tree' = setEntry(tree, f.normalized,
                         DirEntryOf(f.parentPath, f.normalized, now))
           /\ pending' = IF rest = <<>> THEN <<>>
                         ELSE [rest EXCEPT ![Len(rest)].stage =
                                              "mkdir: setEntry"]
    /\ UNCHANGED <<docs, blobs, fileHandles, now, nops, last, threw, cap,
                   serial, disk, stored, Host>>

\* writeFile and rm called when no mkdir is in progress.
WriteWhenIdle(p, c) == pending = <<>> /\ WriteFile(p, c)
RmWhenIdle(p) == pending = <<>> /\ Rm(p, FALSE)

MkdirPaths == {RootPath, PathA, PathAB, PathABC}

\* Recursive mkdir in the trees that write and rm leave, one nested call
\* at a time.
NextMkdir ==
    \/ \E p \in MkdirPaths : MkdirCall(p)
    \/ MkdirDescend
    \/ MkdirUnwind
    \/ \E p \in MkdirPaths, c \in DeepContents : WriteWhenIdle(p, c)
    \/ \E p \in MkdirPaths : RmWhenIdle(p)

SpecMkdir == Init /\ [][NextMkdir]_vars


\* A cp with recursive that has made its destination and read its source's
\* children: the names still to copy, and the keys the tree had when the
\* outermost cp was called.
CpFrame(srcNorm, destNorm, todo, startKeys) ==
    [stage |-> "cp: children", io |-> FALSE, normalized |-> srcNorm,
     dest |-> destNorm, todo |-> todo, startKeys |-> startKeys]

\* One call of cp with recursive, made by the caller or by the loop of the
\* frame on top of the stack.  A file is copied with readFile and writeFile;
\* for a directory the call makes dest, reads src's children, in the order
\* names, and starts its loop.  frames is the stack beneath it, with the
\* caller's loop moved past this child, and startKeys the keys of the tree
\* when the outermost call was made.
CpRun(src, dest, names, frames, startKeys) ==
    LET srcEntry == getEntry(tree, src)
        copied == cp(St, src, dest, TRUE, now)
        made == mkdir(St, dest, TRUE, now)
        isDir == srcEntry.type = "directory"
        r == IF isDir THEN made ELSE copied
    IN  /\ isDir => Len(frames) < MaxNest
        /\ isDir =>
              names \in Orderings({made.st.tree[k].name :
                         k \in ChildKeys(made.st.tree, normalizePath(src))})
        /\ ~isDir => names = <<>>
        /\ tree' = r.st.tree
        /\ docs' = r.st.docs
        /\ blobs' = r.st.blobs
        /\ fileHandles' = r.st.fileHandles
        /\ pending' =
              IF r.err # "" THEN <<>>
              ELSE IF isDir
              THEN Append(frames, CpFrame(normalizePath(src),
                                          normalizePath(dest), names,
                                          startKeys))
              ELSE frames
        /\ Record(Call("cp", src, dest, NoContent, TRUE, r.err))
        /\ UNCHANGED <<now, cap, serial, disk, stored, Host>>

CpNames == {<<>>, <<<<"b">>>>, <<<<"a">>>>, <<<<"a">>, <<"b">>>>,
            <<<<"b">>, <<"a">>>>}

\* A caller invokes cp with recursive; no other call is in progress.
CpCall(src, dest) ==
    /\ nops < MaxOps
    /\ pending = <<>>
    /\ \E names \in CpNames : CpRun(src, dest, names, <<>>, DOMAIN tree)
    /\ nops' = nops + 1

\* The loop of the frame on top of the stack calls cp on its next child.
CpDescend ==
    /\ pending # <<>>
    /\ Last(pending).stage = "cp: children"
    /\ Last(pending).todo # <<>>
    /\ LET f == Last(pending)
           name == Head(f.todo)
           frames == [pending EXCEPT ![Len(pending)].todo = Tail(@)]
       IN  \E names \in CpNames :
              CpRun(ChildPath(f.normalized, name), ChildPath(f.dest, name),
                    names, frames, f.startKeys)
    /\ nops' = nops

\* The loop of the frame on top of the stack has no child left: the call
\* returns to the frame beneath it.
CpReturn ==
    /\ pending # <<>>
    /\ Last(pending).stage = "cp: children"
    /\ Last(pending).todo = <<>>
    /\ pending' = Front(pending)
    /\ UNCHANGED <<tree, docs, blobs, fileHandles, now, nops, last, threw,
                   cap, serial, disk, stored, Host>>

\* mkdir called when no cp is in progress.
MkdirWhenIdle(p) == pending = <<>> /\ Mkdir(p, FALSE)

CpPaths == {PathA, PathB, PathAB}

\* Recursive cp, one nested call at a time.
NextCp ==
    \/ \E p \in CpPaths, q \in CpPaths : CpCall(p, q)
    \/ CpDescend
    \/ CpReturn
    \/ \E p \in CpPaths : MkdirWhenIdle(p)
    \/ \E p \in CpPaths, c \in AsyncContents : WriteWhenIdle(p, c)

SpecCp == Init /\ [][NextCp]_vars


\* /a and /a/b, each spelled with and without the leading "/".
RelPathA == <<"a">>
RelPathAB == <<"a", "/", "b">>
NamePaths == {PathA, RelPathA, PathAB, RelPathAB}

NextNames ==
    \/ \E p \in NamePaths, c \in AsyncContents : WriteFile(p, c)
    \/ \E p \in NamePaths : Mkdir(p, FALSE)
    \/ \E p \in NamePaths, q \in NamePaths : Mv(p, q)
    \/ \E p \in NamePaths, q \in NamePaths : Cp(p, q, TRUE)
    \/ \E p \in NamePaths : Unlink(p)

SpecNames == Init /\ [][NextNames]_vars


\* this.handle.url: the id of the root document, which is none of the file
\* documents' ids.
RootDocUrl == -1

\* getAllDocumentIds: the root document's id, then the fileDocId of every
\* entry that has one, in the order of the tree's keys (not kept here).
getAllDocumentIds(st) ==
    LET keys == {k \in DOMAIN st.tree : st.tree[k].fileDocId # NoDoc}
        order == CHOOSE o \in Orderings(keys) : TRUE
    IN  <<RootDocUrl>> \o [i \in 1..Len(order) |-> st.tree[order[i]].fileDocId]

\* A caller invokes mv, which has no await and runs to its end.
InvokeMv(p, q) ==
    /\ nops < MaxOps
    /\ LET r == mv(St, p, q, now)
       IN  /\ tree' = r.st.tree
           /\ Record(Call("mv", p, q, NoContent, FALSE, r.err))
    /\ serial' = mv(serial, p, q, now).st
    /\ nops' = nops + 1
    /\ UNCHANGED <<docs, blobs, fileHandles, now, cap, pending, disk,
                   stored, Host>>

\* Unawaited writes and moves of two files.
SharePaths == {PathA, PathB}

NextShare ==
    \/ \E p \in SharePaths, c \in AsyncContents : InvokeWrite(p, c)
    \/ \E p \in SharePaths, q \in SharePaths : InvokeMv(p, q)
    \/ \E i \in 1..MaxOps : Resume(i)

SpecShare == Init /\ [][NextShare]_vars


\* ------------------------------------------------------------ AutomergeFsLive
\* The code points String.prototype.trim removes: space, tab, LF, CR.
Whitespace == {32, 9, 10, 13}

RECURSIVE TrimStart(_)
TrimStart(s) ==
    IF s # <<>> /\ Head(s) \in Whitespace THEN TrimStart(Tail(s)) ELSE s

RECURSIVE TrimEnd(_)
TrimEnd(s) ==
    IF s # <<>> /\ Last(s) \in Whitespace THEN TrimEnd(Front(s)) ELSE s

Trim(s) == TrimEnd(TrimStart(s))

\* The text of a root document's url: document n of the repo is written as
\* the one character n, which is no whitespace.
UrlText(n) == <<100 + n>>
UrlOf(text) == IF Len(text) = 1 THEN text[1] - 100 ELSE 0

\* A start that takes the root-doc-id file to be missing whatever the data
\* directory holds.
StartBranch_AlwaysCreate(d) == "create"

\* if (existsSync(rootDocIdFile)) ... else ...
StartBranch(d) == IF d.file # NoFile THEN "load" ELSE "create"

\* A daemon process starts on the data directory and tests for the file.
DaemonStart ==
    /\ daemon.pc = "stopped"
    /\ daemon.starts < MaxStarts
    /\ daemon' = [daemon EXCEPT !.pc = StartBranch(daemon),
                                !.starts = @ + 1]
    /\ UNCHANGED <<tree, docs, blobs, fileHandles, now, nops, last, threw,
                   cap, pending, serial, disk, stored, server, client>>

\* readFileSync(rootDocIdFile).trim() and AutomergeFsMultiDoc.load: the
\* root handle is the handle of the document the file names; the start
\* fails if the repo has no such document.
DaemonLoad ==
    /\ daemon.pc = "load"
    /\ LET rootDocUrl == UrlOf(Trim(daemon.file))
       IN  daemon' =
              IF rootDocUrl \in daemon.repo
              THEN [daemon EXCEPT !.pc = "running", !.handle = rootDocUrl,
                                  !.runs = Append(@, rootDocUrl)]
              ELSE [daemon EXCEPT !.pc = "stopped"]
    /\ UNCHANGED <<tree, docs, blobs, fileHandles, now, nops, last, threw,
                   cap, pending, serial, disk, stored, server, client>>

\* AutomergeFsMultiDoc.create: a new root document in the repo.
DaemonCreate ==
    /\ daemon.pc = "create"
    /\ LET url == Cardinality(daemon.repo) + 1
       IN  daemon' = [daemon EXCEPT !.pc = "write", !.handle = url,
                                    !.repo = @ \cup {url}]
    /\ UNCHANGED <<tree, docs, blobs, fileHandles, now, nops, last, threw,
                   cap, pending, serial, disk, stored, server, client>>

\* writeFileSync(rootDocIdFile, fs.rootDocUrl): the start has its engine.
DaemonWriteId ==
    /\ daemon.pc = "write"
    /\ daemon' = [daemon EXCEPT !.pc = "running",
                                !.file = UrlText(daemon.handle),
                                !.written = @ + 1,
                                !.runs = Append(@, daemon.handle)]
    /\ UNCHANGED <<tree, docs, blobs, fileHandles, now, nops, last, threw,
                   cap, pending, serial, disk, stored, server, client>>

\* The process ends, at any point of its start or while it serves.
DaemonStop ==
    /\ daemon.pc # "stopped"
    /\ daemon' = [daemon EXCEPT !.pc = "stopped", !.handle = 0]
    /\ UNCHANGED <<tree, docs, blobs, fileHandles, now, nops, last, threw,
                   cap, pending, serial, disk, stored, server, client>>

NextDaemon ==
    \/ DaemonStart
    \/ DaemonLoad
    \/ DaemonCreate
    \/ DaemonWriteId
    \/ DaemonStop

SpecDaemon == Init /\ [][NextDaemon]_vars


\* ------------------------------------------------------------ rpc transport
\* Text on the wire is a sequence of pieces: a newline, a blank, text that
\* is no JSON, the JSON text of a message, or the first or second half of
\* that text.
NL == <<"nl", 0>>
Blank == <<"sp", 0>>
Junk == <<"junk", 0>>
Whole(msg) == <<"whole", msg>>
FirstHalf(msg) == <<"first", msg>>
SecondHalf(msg) == <<"second", msg>>

\* str.split("\n"): the text between the newlines, the text after the last
\* newline included.
RECURSIVE SplitLines(_, _)
SplitLines(s, cur) ==
    IF s = <<>> THEN <<cur>>
    ELSE IF Head(s) = NL THEN <<cur>> \o SplitLines(Tail(s), <<>>)
    ELSE SplitLines(Tail(s), Append(cur, Head(s)))

\* line.trim() is not empty.
NotBlank(line) == \E i \in DOMAIN line : line[i] # Blank

RECURSIVE StripBlanks(_)
StripBlanks(line) ==
    IF line # <<>> /\ Head(line) = Blank THEN StripBlanks(Tail(line))
    ELSE IF line # <<>> /\ Last(line) = Blank THEN StripBlanks(Front(line))
    ELSE line

\* JSON.parse(line): the message whose text the line is, blanks around it
\* allowed; parsed is FALSE when JSON.parse throws.
ParseJson(line) ==
    LET text == StripBlanks(line)
    IN  IF Len(text) = 1 /\ text[1][1] = "whole"
        THEN [parsed |-> TRUE, msg |-> text[1][2]]
        ELSE IF /\ Len(text) = 2
                /\ text[1][1] = "first"
                /\ text[2][1] = "second"
                /\ text[1][2] = text[2][2]
        THEN [parsed |-> TRUE, msg |-> text[1][2]]
        ELSE [parsed |-> FALSE, msg |-> <<>>]

\* The requests sent to the server: status, which takes no parameters;
\* read with an object or with null as params; a method the router does
\* not have.
RpcIds == {1, 2}
RpcRequests ==
    [id : RpcIds, method : {"status", "nope"}, params : {"object"}]
        \cup [id : RpcIds, method : {"read"}, params : {"object", "null"}]

\* router.handle(method, params) run by processLine: the handler's effect
\* succeeds ("result") or fails ("error"), or the handler throws before it
\* returns an effect ("throw"): read destructures params.
RouterHandle(request) ==
    IF request.method = "nope" THEN {"error"}
    ELSE IF request.method = "status" THEN {"result"}
    ELSE IF request.params = "null" THEN {"throw"}
    ELSE {"result", "error"}

\* The loop of onData over the lines: processLine on each line that is not
\* blank, until one of them dies.  choice is the way the handlers' effects
\* end.  The result is what the loop wrote to the socket.
RECURSIVE ProcessLines(_, _, _)
ProcessLines(lines, i, choice) ==
    IF i > Len(lines) THEN <<>>
    ELSE LET line == lines[i]
             p == ParseJson(line)
             ends == RouterHandle(p.msg)
             kind == IF choice[i] \in ends THEN choice[i]
                     ELSE CHOOSE k \in ends : TRUE
         IN  IF ~NotBlank(line) \/ ~p.parsed
             THEN ProcessLines(lines, i + 1, choice)
             ELSE IF kind = "throw" THEN <<>>
             ELSE <<[id |-> p.msg.id, kind |-> kind]>>
                      \o ProcessLines(lines, i + 1, choice)

\* The requests among the lines, in the order of the lines.
RECURSIVE RequestsIn(_)
RequestsIn(lines) ==
    IF lines = <<>> THEN <<>>
    ELSE LET p == ParseJson(Head(lines))
         IN  (IF NotBlank(Head(lines)) /\ p.parsed THEN <<p.msg>> ELSE <<>>)
                 \o RequestsIn(Tail(lines))

\* What one data event carries: one or two of a request's line, the first
\* half of a request, its second half with the newline, a line that is no
\* JSON, and a blank line.
SplitRequest == [id |-> 1, method |-> "read", params |-> "object"]
ServerPieces ==
    {<<Whole(r), NL>> : r \in RpcRequests}
        \cup {<<FirstHalf(SplitRequest)>>, <<SecondHalf(SplitRequest), NL>>,
              <<Junk, NL>>, <<Blank, NL>>}
ServerChunks == ServerPieces \cup {a \o b : a, b \in ServerPieces}

\* onData(data).
OnData(data) ==
    /\ server.chunks < MaxChunks
    /\ LET newBuffer == server.buffer \o data
           split == SplitLines(newBuffer, <<>>)
           lines == Front(split)
       IN  \E choice \in [DOMAIN lines -> {"result", "error"}] :
              server' =
                 IF server.closed
                 THEN [server EXCEPT !.chunks = @ + 1]
                 ELSE [server EXCEPT
                          !.chunks = @ + 1,
                          !.buffer = Last(split),
                          !.out = @ \o ProcessLines(lines, 1, choice),
                          !.received = @ \o RequestsIn(lines)]
    /\ UNCHANGED <<tree, docs, blobs, fileHandles, now, nops, last, threw,
                   cap, pending, serial, disk, stored, daemon, client>>

\* onClose(error).
OnClose ==
    /\ ~server.closed
    /\ server' = [server EXCEPT !.closed = TRUE]
    /\ UNCHANGED <<tree, docs, blobs, fileHandles, now, nops, last, threw,
                   cap, pending, serial, disk, stored, daemon, client>>

NextServer ==
    \/ \E data \in ServerChunks : OnData(data)
    \/ OnClose

SpecServer == Init /\ [][NextServer]_vars


\* ------------------------------------------------------------- connectClient
\* An id given to two calls.
NextIdAfter_Same(n) == n

\* const id = nextId++
NextIdAfter(n) == n + 1

\* resumeCall(...) on the call at index i: the call's effect ends the first
\* time; every time is counted.
ResumeCall(calls, i, kind, from) ==
    [calls EXCEPT ![i].done = @ + 1,
                  ![i].outcome = IF calls[i].done = 0
                                 THEN [kind |-> kind, from |-> from]
                                 ELSE @]

\* The pending map without id.
PendingDelete(pend, id) == [i \in DOMAIN pend \ {id} |-> pend[i]]

\* processLine(line) of the client: a parsed message whose id is in the
\* pending map removes the entry and resumes its call.
ClientProcessLine(c, line) ==
    LET p == ParseJson(line)
        msg == p.msg
        seen == [c EXCEPT !.arrived =
                    Append(@, [id |-> msg.id, kind |-> msg.kind,
                               ncalls |-> Len(c.calls)])]
    IN  IF ~p.parsed THEN c
        ELSE IF msg.id \notin DOMAIN c.pending THEN seen
        ELSE [seen EXCEPT
                 !.pending = PendingDelete(@, msg.id),
                 !.calls = ResumeCall(@, c.pending[msg.id], msg.kind,
                                      msg.id)]

RECURSIVE ClientProcessLines(_, _)
ClientProcessLines(c, lines) ==
    IF lines = <<>> THEN c
    ELSE ClientProcessLines(
             IF NotBlank(Head(lines)) THEN ClientProcessLine(c, Head(lines))
             ELSE c,
             Tail(lines))

\* The loop of close() and of the socket's close handler: every pending
\* call is rejected with "Connection closed", then the map is cleared.
RECURSIVE RejectAll(_, _)
RejectAll(calls, pend) ==
    IF DOMAIN pend = {} THEN calls
    ELSE LET id == CHOOSE i \in DOMAIN pend : TRUE
         IN  RejectAll(ResumeCall(calls, pend[id], "closed", 0),
                       PendingDelete(pend, id))

\* What one data event carries: one or two response lines, each a result
\* or an error for the id 1 or 2; the first half of a response, its second
\* half with the newline, a line that is no JSON, and a blank line.
RpcResponses == [id : {1, 2}, kind : {"result", "error"}]
SplitResponse == [id |-> 1, kind |-> "result"]
ResponseLines == {<<Whole(r), NL>> : r \in RpcResponses}
ClientChunks ==
    ResponseLines
        \cup {a \o b : a, b \in ResponseLines}
        \cup {<<FirstHalf(SplitResponse)>>, <<SecondHalf(SplitResponse), NL>>,
              <<Junk, NL>>, <<Blank, NL>>}

ClientStep(c) ==
    /\ client.events < MaxEvents
    /\ client' = [c EXCEPT !.events = client.events + 1]
    /\ UNCHANGED <<tree, docs, blobs, fileHandles, now, nops, last, threw,
                   cap, pending, serial, disk, stored, daemon, server>>

\* connection.call(request) is run.
ClientCall ==
    LET id == client.nextId
        i == Len(client.calls) + 1
    IN  ClientStep(
            IF client.closed
            THEN [client EXCEPT !.calls =
                     Append(@, [id |-> 0, done |-> 1,
                                outcome |-> [kind |-> "closed", from |-> 0]])]
            ELSE [client EXCEPT
                     !.nextId = NextIdAfter(id),
                     !.pending = [j \in DOMAIN @ \cup {id} |->
                                     IF j = id THEN i ELSE @[j]],
                     !.calls =
                        Append(@, [id |-> id, done |-> 0,
                                   outcome |-> [kind |-> "pending",
                                                from |-> 0]])])

\* The socket's data handler.
ClientData(data) ==
    LET split == SplitLines(client.buffer \o data, <<>>)
    IN  ClientStep(ClientProcessLines([client EXCEPT !.buffer = Last(split)],
                                      Front(split)))

\* connection.close().
ClientClose ==
    ClientStep([client EXCEPT !.closed = TRUE, !.ended = TRUE,
                              !.calls = RejectAll(@, client.pending),
                              !.pending = [i \in {} |-> 0]])

\* The socket's close handler.
SocketClosed ==
    ClientStep([client EXCEPT !.closed = TRUE,
                              !.calls = RejectAll(@, client.pending),
                              !.pending = [i \in {} |-> 0]])

\* The socket's error handler: connectClient's effect has ended with the
\* connection, so resuming it again changes nothing, and the pending calls
\* are left as they are.
SocketError == ClientStep(client)

NextClient ==
    \/ ClientCall
    \/ \E data \in ClientChunks : ClientData(data)
    \/ ClientClose
    \/ SocketClosed
    \/ SocketError

SpecClient == Init /\ [][NextClient]_vars


\* ------------------------------------------------------------------ claims
FilePaths == {p \in DOMAIN tree : tree[p].type = "file"}
DirPaths == {p \in DOMAIN tree : tree[p].type = "directory"}

\* The root entry is in place, as create() wrote it.
RootIntact ==
    /\ RootPath \in DOMAIN tree
    /\ tree[RootPath].type = "directory"
    /\ tree[RootPath].parent = NoParent

\* C1: after any sequence of successful operations, every non-root tree
\* entry at path P has an entry at parent(P) whose kind is directory.
\* Stated of the runs that leave the root entry in place, so that a
\* violation is a lost parent beneath the root.
C1_ParentIsDirectory ==
    (~threw /\ RootIntact) =>
        \A p \in DOMAIN tree :
            p # RootPath => getEntry(tree, getParentPath(p)).type = "directory"

\* C2: in every reachable state the tree holds the root entry "/" with kind
\* directory and no parent.
C2_RootIsDirectory == RootIntact

\* C3: after any sequence of completed operations, every blob hash a tree
\* entry references is present in the blob store. Stated of the runs in
\* which no call threw and the root entry is in place.
C3_ReferencedBlobsPresent ==
    (~threw /\ RootIntact) =>
        \A p \in DOMAIN tree :
            tree[p].blobHash # NoHash => BlobHas(blobs, tree[p].blobHash)

\* C4: every file entry carries exactly one body pointer (a text document or
\* a blob, never both, never neither) and every directory entry carries none.
C4_OneBodyPointer ==
    \A p \in DOMAIN tree :
        /\ tree[p].type = "file" =>
              (tree[p].fileDocId # NoDoc) # (tree[p].blobHash # NoHash)
        /\ tree[p].type = "directory" =>
              tree[p].fileDocId = NoDoc /\ tree[p].blobHash = NoHash

\* C4's case: a write has just switched a text file to a blob, or a blob
\* file to text, or a file has just been moved, beside a directory.
C4_Witness_Switch ==
    /\ last.err = ""
    /\ \/ last.op = "write" /\ last.was = "text"
          /\ KindAt(tree, last.path) = "blob"
       \/ last.op = "write" /\ last.was = "blob"
          /\ KindAt(tree, last.path) = "text"
    /\ Cardinality(DirPaths) >= 2

\* The latest call was op and it returned.
Returned(op) == last.op = op /\ last.err = ""

\* C5: read(p) right after a successful write(p, c) returns exactly the bytes
\* of c (the UTF-8 encoding of c when c is a string). Stated of the writes
\* that leave the root entry in place.
C5_ReadAfterWrite ==
    (Returned("write") /\ RootIntact) =>
        /\ readFile(St, last.path).err = ""
        /\ readFile(St, last.path).bytes = ContentBytes(last.content)

\* C6: for every file entry, metadata.size equals the byte length of the body
\* read returns for that path. Stated of the runs in which no call threw
\* and the root entry is in place.
C6_SizeIsBodyLength ==
    (~threw /\ RootIntact) =>
        \A p \in FilePaths :
            readFile(St, p).err = "" => tree[p].size = Len(readFile(St, p).bytes)

\* C7: no single operation changes the kind of an existing entry: a path that
\* holds a directory (a file) before a call and an entry after it still
\* holds a directory (a file). Stated of the paths beneath the root.
C7_KindNeverChanges ==
    [][\A p \in (DOMAIN tree \cap DOMAIN tree') \ {RootPath} :
          tree'[p].type = tree[p].type]_vars

\* The call that leads to the next state is op and it returns.
Returns(op) == nops' = nops + 1 /\ last'.op = op /\ last'.err = ""

\* C8: after mv(p, q) succeeds for a file p, the entry at q exists with the
\* body pointer p had, read(q) is the old read(p), file_heads(q) is the old
\* file_heads(p), ctime and mode are preserved, and when q differs from p
\* the entry at p is gone.
C8_MvPreservesFile ==
    [][\A src \in Paths, dst \in Paths :
        (Returns("mv") /\ last'.path = src /\ last'.dest = dst) =>
        LET p == normalizePath(src)
            q == normalizePath(dst)
        IN  /\ q \in DOMAIN tree'
            /\ tree'[q].fileDocId = tree[p].fileDocId
            /\ tree'[q].blobHash = tree[p].blobHash
            /\ readFile(St, q)'.err = readFile(St, p).err
            /\ readFile(St, q)'.bytes = readFile(St, p).bytes
            /\ getFileHeads(St, q)'.heads = getFileHeads(St, p).heads
            /\ tree'[q].ctime = tree[p].ctime
            /\ tree'[q].mode = tree[p].mode
            /\ (q # p => p \notin DOMAIN tree')]_vars

\* C9: after cp(p, q) of a text file p to another path q, read(q) equals
\* read(p), p is unchanged, and q references a text document other than p's,
\* so that file_heads(q) differs from file_heads(p). Stated of the copies
\* that leave the root entry in place.
C9_CpCopiesText ==
    [][\A src \in Paths, dst \in Paths :
        (Returns("cp") /\ last'.path = src /\ last'.dest = dst /\ RootIntact'
           /\ KindAt(tree, src) = "text"
           /\ normalizePath(dst) # normalizePath(src)) =>
        LET p == normalizePath(src)
            q == normalizePath(dst)
        IN  /\ readFile(St, q)'.err = ""
            /\ readFile(St, q)'.bytes = readFile(St, p)'.bytes
            /\ readFile(St, p)'.bytes = readFile(St, p).bytes
            /\ tree'[p] = tree[p]
            /\ docs'[tree[p].fileDocId] = docs[tree[p].fileDocId]
            /\ tree'[q].fileDocId # NoDoc
            /\ tree'[q].fileDocId # tree'[p].fileDocId
            /\ getFileHeads(St, q)'.heads # getFileHeads(St, p)'.heads]_vars

\* The captured heads name the text the engine stored for the captured write
\* (the written string, or the decoding of the written bytes), the current
\* heads name the current body, and a later write of another text moves the
\* heads.
CapturedHeadsNameStoredText ==
    cap.valid =>
        /\ getFileAt(St, cap.path, cap.heads).text = ContentText(cap.content)
        /\ TextEncode(getFileAt(St, cap.path,
                                getFileHeads(St, cap.path).heads).text)
              = readFile(St, cap.path).bytes
        /\ (Returned("write")
              /\ ContentText(last.content) # ContentText(cap.content)
              => getFileHeads(St, cap.path).heads # cap.heads)

\* C10: heads h1 captured after write(p, c1) keep naming c1 while p is
\* overwritten with text contents: view_at(p, h1) returns c1, view_at at the
\* current heads returns the current content, and the heads after a later
\* write of a different content differ from h1.  Contents are compared by
\* their bytes.
C10_ViewAtCapturedHeads ==
    (cap.valid /\ RootIntact) =>
        /\ TextEncode(getFileAt(St, cap.path, cap.heads).text)
              = ContentBytes(cap.content)
        /\ TextEncode(getFileAt(St, cap.path,
                                getFileHeads(St, cap.path).heads).text)
              = readFile(St, cap.path).bytes
        /\ (Returned("write")
              /\ ContentBytes(last.content) # ContentBytes(cap.content)
              => getFileHeads(St, cap.path).heads # cap.heads)

\* The engine in the next state.
StNext == [tree |-> tree', docs |-> docs', blobs |-> blobs',
           fileHandles |-> fileHandles']

\* C11: a text write (write or append with a string or valid UTF-8 bytes)
\* to a path that holds a text file keeps the entry's fileDocId, creates no
\* document, and extends the file's history: the history before the write
\* is a prefix of the history after it.
C11_TextWriteReusesDoc ==
    [][(/\ Returns("write") \/ Returns("append")
        /\ KindAt(tree, last'.path) = "text"
        /\ ~ContentIsBinary(last'.content)) =>
        LET p == normalizePath(last'.path)
        IN  /\ p \in DOMAIN tree'
            /\ tree'[p].fileDocId = tree[p].fileDocId
            /\ Len(docs') = Len(docs)
            /\ IsPrefix(getFileHistory(St, p), getFileHistory(StNext, p))]_vars

\* A text file rewritten with another text: its history has two changes.
C11_Witness_Rewritten ==
    /\ last.op \in {"write", "append"}
    /\ last.err = ""
    /\ last.was = "text"
    /\ KindAt(tree, last.path) = "text"
    /\ Len(getFileHistory(St, last.path)) >= 2

\* The change hashes of every document of the repo.
AllChanges(ds) ==
    UNION {{<<i, n>> : n \in 1..Len(ds[i])} : i \in 1..Len(ds)}

\* C12: a write of non-UTF-8 bytes to a path that holds a text file makes
\* read return the bytes and file_heads return the empty list, and takes the
\* old document out of the handle cache; a text write to a path that holds a
\* binary file makes the path reference a newly allocated document whose
\* history has none of the changes of the documents that existed before.
C12_TextBinaryTextSwitch ==
    [][Returns("write") =>
        LET p == normalizePath(last'.path)
            c == last'.content
        IN  /\ (KindAt(tree, p) = "text" /\ ContentIsBinary(c)) =>
                /\ readFile(StNext, p).err = ""
                /\ readFile(StNext, p).bytes = ContentBytes(c)
                /\ getFileHeads(StNext, p).heads = <<>>
                /\ tree[p].fileDocId \notin fileHandles'
            /\ (KindAt(tree, p) = "blob" /\ ~ContentIsBinary(c)) =>
                /\ tree'[p].fileDocId # NoDoc
                /\ tree'[p].fileDocId \notin 1..Len(docs)
                /\ \A k \in 1..Len(getFileHistory(StNext, p)) :
                      getFileHistory(StNext, p)[k] \notin AllChanges(docs)]_vars

\* write(p, text); write(p, non-UTF-8 bytes); write(p, text2) and nothing
\* else: p is the only file, and it references the second document.
C12_Witness_SecondDoc ==
    /\ RootIntact
    /\ nops = 3
    /\ Returned("write")
    /\ last.was = "blob"
    /\ KindAt(tree, last.path) = "text"
    /\ Cardinality(DOMAIN tree) = 2
    /\ Len(docs) = 2
    /\ tree[normalizePath(last.path)].fileDocId = 2

\* The call that leads to the next state is op, whether it returns or throws.
Calls(op) == nops' = nops + 1 /\ last'.op = op

\* C13: rm(p) without the recursive flag on a directory p is refused with
\* IsADirectory and leaves the tree unchanged.  Stated of the directories
\* beneath an intact root.
C13_RmDirectoryRefused ==
    [][\A src \in Paths \ {RootPath} :
        (/\ Calls("rm") /\ last'.path = src /\ ~last'.recursive
         /\ RootIntact
         /\ KindAt(tree, normalizePath(src)) = "directory") =>
        /\ last'.err = "EISDIR"
        /\ tree' = tree]_vars

\* The entries of tr at path or beneath it.
Subtree(tr, path) ==
    {k \in DOMAIN tr : k = path \/ Beneath(Parts(path), Parts(k))}

\* C14: rm(d, recursive) on a directory d returns, removes d and every entry
\* beneath d, deletes the blobs of the binary files among them, evicts the
\* handles of the text files among them, and leaves every entry outside d's
\* subtree unchanged.  Stated of the directories beneath an intact root.
C14_RmRecursiveRemovesSubtree ==
    [][\A src \in (Paths \cup DeepPaths) \ {RootPath} :
        (/\ Calls("rm") /\ last'.path = src /\ last'.recursive
         /\ RootIntact
         /\ KindAt(tree, normalizePath(src)) = "directory") =>
        LET d == normalizePath(src)
        IN  /\ last'.err = ""
            /\ DOMAIN tree' = DOMAIN tree \ Subtree(tree, d)
            /\ \A k \in DOMAIN tree' : tree'[k] = tree[k]
            /\ \A k \in Subtree(tree, d) :
                  /\ tree[k].blobHash # NoHash
                        => ~BlobHas(blobs', tree[k].blobHash)
                  /\ tree[k].fileDocId # NoDoc
                        => tree[k].fileDocId \notin fileHandles']_vars

\* C15: mkdir(p) on a path that is already a directory returns, with or
\* without the recursive flag, and leaves the tree unchanged.
C15_MkdirIdempotent ==
    [][\A src \in Paths \cup DeepPaths :
        (/\ Calls("mkdir") /\ last'.path = src
         /\ KindAt(tree, normalizePath(src)) = "directory") =>
        /\ last'.err = ""
        /\ tree' = tree
        /\ docs' = docs
        /\ blobs' = blobs]_vars

\* mkdir has been called, at a later clock value, on a directory that has
\* a child.
C15_Witness_MkdirOnDirectory ==
    /\ Returned("mkdir")
    /\ last.was = "directory"
    /\ last.path # RootPath
    /\ last.t > tree[normalizePath(last.path)].mtime
    /\ ChildKeys(tree, normalizePath(last.path)) # {}

\* The errors the statement of mkdir names for a target that is not a
\* directory: FileNotFound when the parent is missing and recursive is not
\* set, AlreadyExists when the target is a file, NotADirectory when an
\* ancestor of the target is a file.
MkdirRefusals(tr, p, recursive) ==
    (IF ~recursive /\ getEntry(tr, getParentPath(p)).type = "none"
     THEN {"ENOENT"} ELSE {})
    \cup (IF getEntry(tr, p).type = "file" THEN {"EEXIST"} ELSE {})
    \cup (IF \E a \in DOMAIN tr : /\ Beneath(Parts(a), Parts(p))
                                  /\ tr[a].type = "file"
          THEN {"ENOTDIR"} ELSE {})

\* C16: mkdir(p) fails with FileNotFound when the parent is missing and
\* recursive is not set, with AlreadyExists when p is a file, and with
\* NotADirectory when an ancestor on the path is a file (also in recursive
\* mode); a failing mkdir creates and modifies nothing.  Where several of
\* the cases apply, any of their errors is accepted.  Stated of the targets
\* that are not directories, beneath an intact root.
C16_FailingMkdirChangesNothing ==
    [][\A src \in (Paths \cup DeepPaths) \ {RootPath} :
        (/\ Calls("mkdir") /\ last'.path = src
         /\ RootIntact
         /\ KindAt(tree, normalizePath(src)) # "directory") =>
        LET p == normalizePath(src)
            refusals == MkdirRefusals(tree, p, last'.recursive)
        IN  /\ refusals # {} => last'.err \in refusals
            /\ last'.err # "" =>
                  tree' = tree /\ docs' = docs /\ blobs' = blobs]_vars

\* C17: write(p, content) fails with FileNotFound when parent(p) is absent
\* or is not a directory, and a write that fails leaves the tree, every
\* text document, the handle cache and the blob store unchanged.
C17_FailedWriteChangesNothing ==
    [][\A src \in Paths \cup DeepPaths :
        (Calls("write") /\ last'.path = src) =>
        /\ KindAt(tree, getParentPath(normalizePath(src))) # "directory"
              => last'.err = "ENOENT"
        /\ last'.err # "" =>
              /\ tree' = tree
              /\ docs' = docs
              /\ fileHandles' = fileHandles
              /\ blobs' = blobs]_vars

\* A write beneath a binary file has been refused.
C17_Witness_ParentIsFile ==
    /\ last.op = "write"
    /\ last.err = "ENOENT"
    /\ KindAt(tree, getParentPath(normalizePath(last.path))) = "blob"
    /\ RootIntact

\* Heads a history browser may probe with: none, a change no document has,
\* and the changes of the documents of the repo.
ProbeHeads == {<<>>, <<<<0, 1>>>>} \cup {<<c>> : c \in AllChanges(docs)}

\* The history queries on a path that has no text document (absent, a
\* directory or a binary file) return the empty list, and view_at the empty
\* string; view_at with heads that name no change of the file's document
\* returns the empty string; the queries leave the tree and the blob store
\* as they are.
HistoryQueriesForgiving ==
    \A p \in Paths :
        /\ getFileHeads(St, p).st.tree = tree
        /\ getFileHeads(St, p).st.blobs = blobs
        /\ KindAt(tree, p) # "text" =>
              /\ getFileHeads(St, p).heads = <<>>
              /\ getFileHistory(St, p) = <<>>
        /\ \A h \in ProbeHeads :
              /\ getFileAt(St, p, h).st.tree = tree
              /\ getFileAt(St, p, h).st.blobs = blobs
              /\ (\/ KindAt(tree, p) # "text"
                  \/ h = <<>>
                  \/ h[1] \notin {c \in AllChanges(docs) :
                                     c[1] = getEntry(tree, p).fileDocId})
                    => getFileAt(St, p, h).text = <<>>

C20_UnawaitedCallsSerialize ==
    pending = <<>> =>
        \A p \in AsyncPaths :
            /\ readFile(St, p).err = readFile(serial, p).err
            /\ readFile(St, p).bytes = readFile(serial, p).bytes
            /\ stat(St, p) = stat(serial, p)

\* C21: once close() has been called, the next filesystem or history call is
\* rejected with EngineClosed and changes no state.
C21_ClosedEngineRejects ==
    [][(last.op = "close" /\ nops' = nops + 1 /\ last'.op # "close")
          => /\ last'.err = "EngineClosed"
             /\ StNext = St]_vars

\* The normalized form of a spelling: runs of "/" collapsed, trailing "/"
\* dropped, and every all-slash spelling standing for the root.
Canon(p) == IF Parts(p) = <<>> THEN RootPath ELSE <<"/">> \o JoinParts(Parts(p))

\* Every operation does to the spelling p what it does to Canon(p), with
\* destinations drawn from dests.
SameAsCanon(p, dests) ==
    LET q == Canon(p)
    IN  /\ readFile(St, p) = readFile(St, q)
        /\ stat(St, p) = stat(St, q)
        /\ exists(St, p) = exists(St, q)
        /\ readdir(St, p) = readdir(St, q)
        /\ \A c \in AsyncContents :
              writeFile(St, p, c, now) = writeFile(St, q, c, now)
        /\ \A rec \in BOOLEAN :
              /\ mkdir(St, p, rec, now) = mkdir(St, q, rec, now)
              /\ rm(St, p, rec) = rm(St, q, rec)
        /\ \A r \in dests :
              /\ mv(St, p, r, now) = mv(St, q, Canon(r), now)
              /\ cp(St, p, r, FALSE, now) = cp(St, q, Canon(r), FALSE, now)

\* C22: spellings of one path that differ by runs of "/" or trailing "/"
\* address the same entry in read, write, stat, exists, readdir, mkdir, rm,
\* mv and cp, and every key of the tree is in normalized form.
C22_NormalizedAddressing ==
    /\ \A k \in DOMAIN tree : Canon(k) = k
    /\ \A p \in SlashPaths : SameAsCanon(p, SlashPaths)

\* The same with the all-slash spellings of the root left out.
NonRootSpellingsAgree ==
    /\ \A k \in DOMAIN tree : k # <<>> => Canon(k) = k
    /\ LET named == {p \in SlashPaths : Parts(p) # <<>>}
       IN  \A p \in named : SameAsCanon(p, named)

\* What a map from hash to bytes answers to get(h).
MapGet(m, h) ==
    IF h \in DOMAIN m THEN [err |-> "", found |-> TRUE, bytes |-> m[h]]
    ELSE [err |-> "", found |-> FALSE, bytes |-> <<>>]

\* C23: after any set and delete calls with hashes of length 1 and more, no
\* call has thrown, get(h) returns the bytes of the latest set(h, .) not
\* followed by delete(h) and null otherwise, has(h) agrees with get(h), and
\* list() is exactly the set of stored hashes.
C23_BlobStoreIsMap ==
    /\ last.op \in {"blobSet", "blobDelete"} => last.err = ""
    /\ \A h \in Hashes, dirExists \in BOOLEAN :
          /\ FsBlobGet(disk, h, dirExists) = MapGet(stored, h)
          /\ FsBlobHas(disk, h, dirExists) = (h \in DOMAIN stored)
    /\ FsBlobList(disk) = DOMAIN stored

\* The same for hashes of three characters that do not begin with "00".
LongHashesBehaveAsMap ==
    LET long == {h \in Hashes : Len(h) > 2 /\ SubSeq(h, 1, 2) # ShortDir}
    IN  (\A h \in DOMAIN stored : h \in long) =>
           /\ \A h \in long, dirExists \in BOOLEAN :
                 /\ FsBlobGet(disk, h, dirExists) = MapGet(stored, h)
                 /\ FsBlobHas(disk, h, dirExists) = (h \in DOMAIN stored)
           /\ FsBlobList(disk) = DOMAIN stored

\* C24: a write that returns on an existing file keeps the entry's mode and
\* ctime and sets mtime to the time of the write; a write that creates the
\* entry sets mode 0o644 and ctime = mtime = the time of the write.
C24_WriteKeepsModeAndCtime ==
    [][Returns("write") =>
          LET p == normalizePath(last'.path)
              old == getEntry(tree, p)
              new == getEntry(tree', p)
          IN  /\ last'.was \in {"text", "blob"} =>
                    /\ new.mode = old.mode
                    /\ new.ctime = old.ctime
                    /\ new.mtime = now
              /\ last'.was = "none" =>
                    /\ new.mode = FileMode
                    /\ new.ctime = now
                    /\ new.mtime = now]_vars

\* A write has just returned on a file whose mode chmod had set and which
\* was created at an earlier clock value.
C24_Witness_ChmodSurvives ==
    /\ Returned("write")
    /\ last.was \in {"text", "blob"}
    /\ LET e == getEntry(tree, last.path)
       IN  /\ e.mode \in Modes
           /\ e.ctime < e.mtime
           /\ e.mtime = now

\* The step leaves documents, blob store and every entry other than the one
\* at p as they were, and keeps p's entry.
OnlyEntryTouched(p) ==
    /\ docs' = docs
    /\ blobs' = blobs
    /\ DOMAIN tree' = DOMAIN tree
    /\ \A k \in DOMAIN tree : k # p => tree'[k] = tree[k]

\* C25: chmod changes only the mode of p's entry and utimes only its mtime;
\* on an absent path both throw ENOENT and change nothing.
C25_ChmodUtimesTouchOneField ==
    [][(Calls("chmod") \/ Calls("utimes")) =>
          LET p == normalizePath(last'.path)
          IN  IF last'.was = "none"
              THEN last'.err = "ENOENT" /\ StNext = St
              ELSE /\ last'.err = ""
                   /\ OnlyEntryTouched(p)
                   /\ last'.op = "chmod" =>
                         /\ tree'[p].mode \in Modes
                         /\ tree'[p] = [tree[p] EXCEPT !.mode = tree'[p].mode]
                   /\ last'.op = "utimes" =>
                         /\ tree'[p].mtime \in Mtimes
                         /\ tree'[p] =
                               [tree[p] EXCEPT !.mtime = tree'[p].mtime]]_vars

\* utimes has just returned on a file whose mode chmod had set, with a
\* second entry beside it.
C25_Witness_BothApplied ==
    /\ Returned("utimes")
    /\ LET e == getEntry(tree, last.path)
       IN  /\ e.type = "file"
           /\ e.mode \in Modes
           /\ e.mtime \in Mtimes
    /\ Cardinality(DOMAIN tree) >= 2

\* C26: an append that returns on a text file leaves read(p) equal to the
\* previous content followed by t and keeps the file's text document; on an
\* absent path beneath a directory it creates the file with content t.
C26_AppendExtendsContent ==
    [][Returns("append") =>
          LET p == normalizePath(last'.path)
              t == TextEncode(last'.content.v)
          IN  /\ last'.was = "text" =>
                    /\ readFile(StNext, p).err = ""
                    /\ readFile(StNext, p).bytes = readFile(St, p).bytes \o t
                    /\ tree'[p].fileDocId = tree[p].fileDocId
              /\ last'.was = "none" =>
                    /\ readFile(StNext, p).err = ""
                    /\ readFile(StNext, p).bytes = t]_vars

\* The same for text files whose content does not begin with U+FEFF.
AppendExtendsUnmarkedText ==
    [][Returns("append") =>
          LET p == normalizePath(last'.path)
              t == TextEncode(last'.content.v)
              old == readFile(St, p).bytes
          IN  /\ (last'.was = "text" /\ TextEncode(TextDecode(old)) = old) =>
                    /\ readFile(StNext, p).err = ""
                    /\ readFile(StNext, p).bytes = old \o t
                    /\ tree'[p].fileDocId = tree[p].fileDocId
              /\ last'.was = "none" =>
                    /\ readFile(StNext, p).err = ""
                    /\ readFile(StNext, p).bytes = t]_vars

C28_FailingMvChangesNothing ==
    [][Calls("mv") =>
          LET src == last'.path
              srcKind == getEntry(tree, src).type
              parent == getEntry(tree, getParentPath(normalizePath(last'.dest)))
          IN  /\ srcKind = "none" => last'.err = "ENOENT"
              /\ srcKind = "directory" => last'.err = "NotSupported"
              /\ (srcKind = "file" /\ parent.type # "directory") =>
                    last'.err = "ENOENT"
              /\ last'.err # "" =>
                    /\ StNext = St
                    /\ readFile(StNext, src).err = readFile(St, src).err
                    /\ readFile(StNext, src).bytes =
                          readFile(St, src).bytes]_vars

\* mv of a file was refused because the parent of dest is a file.
C28_Witness_DestParentIsFile ==
    /\ last.op = "mv"
    /\ last.err = "ENOENT"
    /\ getEntry(tree, last.path).type = "file"
    /\ readFile(St, last.path).err = ""
    /\ getEntry(tree, getParentPath(normalizePath(last.dest))).type = "file"

\* No read interleaved with a write or a removal fails for a missing blob.
InterleavedReadFindsBlob == ~(last.op = "read" /\ last.err = "Blob not found")

\* C29: wherever the calls in progress are suspended, every blob hash a tree
\* entry references is present in the blob store, and no read has failed
\* for a missing blob.
C29_NoDanglingBlobAtSuspension ==
    /\ \A p \in FilePaths :
          tree[p].blobHash # NoHash => BlobHas(blobs, tree[p].blobHash)
    /\ InterleavedReadFindsBlob

\* The keys at which the step stores an entry.
Stored == {p \in DOMAIN tree' : p \notin DOMAIN tree \/ tree'[p] # tree[p]}

\* C30: when a suspended write commits its entry, the parent of the path is
\* a directory in the tree as it is then, and a file the path holds then
\* keeps its mode and ctime.
C30_ResumedWriteSeesCurrentTree ==
    [][(nops' = nops /\ Len(pending') < Len(pending)) =>
          \A p \in Stored :
             /\ getEntry(tree, getParentPath(p)).type = "directory"
             /\ getEntry(tree, p).type = "file" =>
                   /\ tree'[p].mode = tree[p].mode
                   /\ tree'[p].ctime = tree[p].ctime]_vars

\* C31: while a rm with recursive of a directory is the one call in
\* progress and no call was invoked after it, the directory and the
\* children it had when the call began are either all there or all gone.
C31_RecursiveRmAtomic ==
    (/\ Len(pending) = 1
     /\ pending[1].stage \in RmStages
     /\ last.op = "rm" /\ last.recursive /\ last.err = "")
        => LET k == pending[1]
               sub == {k.normalized} \cup
                        {k.children[i] : i \in DOMAIN k.children}
           IN  \/ \A p \in sub : exists(St, p)
               \/ \A p \in sub : ~exists(St, p)

\* The write that has just returned replaced a blob body at its path, and no
\* entry references the old hash any more.
ReplacedBlob ==
    /\ Returns("write")
    /\ last'.was = "blob"
    /\ LET old == getEntry(tree, last'.path).blobHash
       IN  \A q \in DOMAIN tree' : tree'[q].blobHash # old

\* C32: after a write that replaces a blob body by other bytes or by text,
\* the blob store no longer holds the old hash.
C32_OldBlobDeletedOnOverwrite ==
    [][ReplacedBlob =>
          ~BlobHas(blobs', getEntry(tree, last'.path).blobHash)]_vars

\* The same for a blob body replaced by text.
OldBlobDeletedOnTextOverwrite ==
    [][(ReplacedBlob /\ getEntry(tree', last'.path).fileDocId # NoDoc) =>
          ~BlobHas(blobs', getEntry(tree, last'.path).blobHash)]_vars

\* C33: every call mkdir makes on itself is on a path with fewer segments
\* than its caller's, so the recursion over missing parents ends by itself
\* and never with the stack exhausted.
C33_MkdirRecursionDescends ==
    [][/\ (pending # <<>> /\ Len(pending') > Len(pending)) =>
              Len(Parts(Last(pending').normalized)) <
                  Len(Parts(Last(pending).normalized))
       /\ last'.err # "RangeError"]_vars

\* The same in the states where the root entry is in place.
MkdirDescendsBeneathRoot ==
    [][RootIntact =>
          /\ (pending # <<>> /\ Len(pending') > Len(pending)) =>
                Len(Parts(Last(pending').normalized)) <
                    Len(Parts(Last(pending).normalized))
          /\ last'.err # "RangeError"]_vars

\* C34: every directory a cp with recursive descends into was in the tree
\* when the outermost cp was called, so the copy ends when the children the
\* source had then are copied.
C34_CpCopiesStartChildren ==
    \A i \in DOMAIN pending :
        pending[i].stage = "cp: children" =>
            pending[i].normalized \in pending[i].startKeys

\* The same for a destination that is not inside the source's subtree.
CpOutsideSourceCopiesStartChildren ==
    \A i \in DOMAIN pending :
        (/\ pending[i].stage = "cp: children"
         /\ ~IsPrefix(Parts(pending[1].normalized), Parts(pending[1].dest)))
            => pending[i].normalized \in pending[i].startKeys

\* C35: an entry stored by writeFile, mkdir, mv or cp carries the basename
\* and the parent path of its key, and the entries readdir selects for a
\* directory have pairwise distinct names.
C35_NamesIdentifyEntries ==
    /\ \A k \in DOMAIN tree :
          tree[k].parent # NoParent =>
              /\ tree[k].name = getBasename(k)
              /\ tree[k].parent = getParentPath(k)
    /\ \A d \in DOMAIN tree : \A k1, k2 \in ChildKeys(tree, d) :
          k1 # k2 => tree[k1].name # tree[k2].name

\* The same for the keys that begin with "/".
AbsoluteKeysHaveDistinctNames ==
    /\ \A k \in DOMAIN tree :
          tree[k].parent # NoParent =>
              /\ tree[k].name = getBasename(k)
              /\ tree[k].parent = getParentPath(k)
    /\ \A d \in DOMAIN tree : \A k1, k2 \in ChildKeys(tree, d) :
          (k1 # k2 /\ Head(k1) = "/" /\ Head(k2) = "/")
              => tree[k1].name # tree[k2].name

\* C36: getAllDocumentIds returns the root document's id and then one id
\* for each text file, all of them different; binary files and directories
\* contribute none.
C36_OneDocumentPerTextFile ==
    LET ids == getAllDocumentIds(St)
        textFiles == {k \in DOMAIN tree :
                         tree[k].type = "file" /\ tree[k].blobHash = NoHash}
    IN  /\ \A i, j \in DOMAIN ids : ids[i] = ids[j] => i = j
        /\ Len(ids) = 1 + Cardinality(textFiles)
        /\ \A k \in DOMAIN tree : tree[k].fileDocId # NoDoc => k \in textFiles

\* C37: the root-doc-id file is written only while it does not exist and is
\* never rewritten, and every start that gets its engine has the root
\* document the file names as its root handle.
C37_RootDocIdWrittenOnce ==
    [][/\ daemon.file # NoFile => daemon'.file = daemon.file
       /\ daemon'.written <= 1
       /\ \A i \in DOMAIN daemon'.runs :
             daemon'.runs[i] = UrlOf(Trim(daemon'.file))]_vars

\* A start created the root document and two later starts loaded it.
C37_Witness_LaterStartsLoad ==
    /\ Len(daemon.runs) >= 3
    /\ daemon.pc = "running"
    /\ daemon.written = 1

\* C38: the lines written to the socket answer the requests received as
\* complete lines, one response per request, in the order of the requests
\* and with their ids; a request for a method the router does not have is
\* answered with an error.
C38_EveryRequestAnswered ==
    /\ Len(server.out) = Len(server.received)
    /\ \A i \in DOMAIN server.out :
          /\ i <= Len(server.received)
          /\ server.out[i].id = server.received[i].id
          /\ server.received[i].method = "nope" =>
                 server.out[i].kind = "error"

\* The same while every request received had params its handler takes.
RequestsWithParamsAnswered ==
    (\A i \in DOMAIN server.received :
         "throw" \notin RouterHandle(server.received[i]))
        => /\ Len(server.out) = Len(server.received)
           /\ \A i \in DOMAIN server.out :
                 /\ server.out[i].id = server.received[i].id
                 /\ server.received[i].method = "nope" =>
                        server.out[i].kind = "error"

\* The first message with the call's id that arrived after the call at
\* index i was made.
FirstAnswer(i) ==
    LET js == {j \in DOMAIN client.arrived :
                  /\ client.arrived[j].id = client.calls[i].id
                  /\ client.arrived[j].ncalls >= i}
    IN  IF js = {} THEN 0 ELSE CHOOSE j \in js : \A k \in js : j <= k

\* C39: every call is resumed at most once; a call that ended did so with
\* the first response that carries its id, or with "Connection closed"; a
\* call that has not ended is in the pending map; no two calls have one
\* id; and after a close the pending map is empty.
C39_CallsCompleteOnce ==
    /\ \A i \in DOMAIN client.calls :
          LET call == client.calls[i]
          IN  /\ call.done <= 1
              /\ call.id = 0 =>
                    call.done = 1 /\ call.outcome.kind = "closed"
              /\ (call.done = 1 /\ call.outcome.kind # "closed") =>
                    /\ FirstAnswer(i) # 0
                    /\ call.outcome.from = call.id
                    /\ call.outcome.kind =
                           client.arrived[FirstAnswer(i)].kind
              /\ call.done = 0 =>
                    /\ call.id \in DOMAIN client.pending
                    /\ client.pending[call.id] = i
                    /\ FirstAnswer(i) = 0
              /\ \A j \in DOMAIN client.calls :
                    (i # j /\ call.id # 0) => client.calls[j].id # call.id
    /\ client.closed => DOMAIN client.pending = {}

\* Of two calls one ended with its response and the other when the
\* connection closed, and a response arrived whose id no call had yet.
C39_Witness_AnsweredAndClosed ==
    /\ client.closed
    /\ \E i, j \in DOMAIN client.calls :
          /\ client.calls[i].outcome.kind \in {"result", "error"}
          /\ client.calls[j].id # 0
          /\ client.calls[j].outcome.kind = "closed"
    /\ \E k \in DOMAIN client.arrived :
          client.arrived[k].id > client.arrived[k].ncalls

====
